---------------------------- MODULE Spec2Model ----------------------------
(***************************************************************************)
(* ADI visit structurer: the extraction pipeline of src/run_pipeline.py,   *)
(* the pattern extractors of src/extract_rules.py, the problem normalizer  *)
(* of src/normalize.py and the quality validator of src/quality.py.        *)
(*                                                                         *)
(* A Python str is a sequence of one-character strings; None is the model  *)
(* value None.  The regular expressions of the source are kept as data     *)
(* (sequences of items) and run by a backtracking matcher with Python's    *)
(* priorities (leftmost match, greedy/lazy counts, alternatives in order). *)
(***************************************************************************)
EXTENDS Integers, Sequences, FiniteSets, TLC

VARIABLES
    args,       \* the run's options: [use_llm, hybrid]
    files,      \* the batch: sorted(RAW_DIR.glob("ADI-*.txt")), one input per note
    idx,        \* position of main's for loop in files (1-based)
    pc,         \* the step main is about to take for files[idx]
    text,       \* PREPROCESS(raw) of the current note
    rec,        \* the record being built for the current note
    q,          \* the result of run_quality_check for the current note
    written,    \* out_path -> document written, by position in files
    posts,      \* times postprocess_record has run on rec
    ret,        \* the value returned, in the specifications of one function
    sent        \* requests.post calls made to the collaborator's endpoint

vars == <<args, files, idx, pc, text, rec, q, written, posts, ret, sent>>

\* Python's None where a str is expected: no str is this sequence (a str is a
\* sequence of one-character strings)
None == <<"None">>
\* Python's None where a number is expected (the vitals are non-negative)
NoneNum == -1

-----------------------------------------------------------------------------
(* Characters and Python's str methods *)

LowerLetters == {"a","b","c","d","e","f","g","h","i","j","k","l","m","n","o","p","q","r","s","t","u","v","w","x","y","z"}
UpperLetters == {"A","B","C","D","E","F","G","H","I","J","K","L","M","N","O","P","Q","R","S","T","U","V","W","X","Y","Z"}
Digits == {"0","1","2","3","4","5","6","7","8","9"}
SpaceChars == {" ", "\n", "\t"}
\* the accented vowels of Italian
LowerAccented == {"à", "è", "é", "ì", "ò", "ù"}
UpperAccented == {"À", "È", "É", "Ì", "Ò", "Ù"}

\* \w of a str pattern, of the letters above
WordChars == LowerLetters \cup UpperLetters \cup LowerAccented \cup UpperAccented
             \cup Digits \cup {"_"}

LowerMap ==
    ("A" :> "a") @@ ("B" :> "b") @@ ("C" :> "c") @@ ("D" :> "d") @@ ("E" :> "e") @@
    ("F" :> "f") @@ ("G" :> "g") @@ ("H" :> "h") @@ ("I" :> "i") @@ ("J" :> "j") @@
    ("K" :> "k") @@ ("L" :> "l") @@ ("M" :> "m") @@ ("N" :> "n") @@ ("O" :> "o") @@
    ("P" :> "p") @@ ("Q" :> "q") @@ ("R" :> "r") @@ ("S" :> "s") @@ ("T" :> "t") @@
    ("U" :> "u") @@ ("V" :> "v") @@ ("W" :> "w") @@ ("X" :> "x") @@ ("Y" :> "y") @@
    ("Z" :> "z") @@
    ("À" :> "à") @@ ("È" :> "è") @@ ("É" :> "é") @@ ("Ì" :> "ì") @@ ("Ò" :> "ò") @@
    ("Ù" :> "ù")

LowerChar(c) == IF c \in DOMAIN LowerMap THEN LowerMap[c] ELSE c

\* str.lower()
Lower(s) == [i \in 1..Len(s) |-> LowerChar(s[i])]

\* s[i-1:j-1] of Python, by 1-based positions: the characters i .. j-1
Slice(s, i, j) == SubSeq(s, i, j - 1)

\* s.startswith(p, i-1)
StartsAt(s, p, i) ==
    /\ i + Len(p) - 1 <= Len(s)
    /\ \A k \in 1..Len(p) : s[i + k - 1] = p[k]

\* sub in s
Contains(sub, s) == \E i \in 1..(Len(s) - Len(sub) + 1) : StartsAt(s, sub, i)

\* s.find(sub) + 1 (0 when absent)
Find(sub, s) ==
    IF Contains(sub, s)
    THEN CHOOSE i \in 1..(Len(s) - Len(sub) + 1) :
            /\ StartsAt(s, sub, i)
            /\ \A j \in 1..(i - 1) : ~StartsAt(s, sub, j)
    ELSE 0

\* str.strip(): leading and trailing whitespace removed
Strip(s) ==
    IF \A i \in 1..Len(s) : s[i] \in SpaceChars THEN <<>>
    ELSE LET a == CHOOSE i \in 1..Len(s) :
                    s[i] \notin SpaceChars /\ \A j \in 1..(i - 1) : s[j] \in SpaceChars
             b == CHOOSE i \in 1..Len(s) :
                    s[i] \notin SpaceChars /\ \A j \in (i + 1)..Len(s) : s[j] \in SpaceChars
         IN SubSeq(s, a, b)

\* str.rstrip("."): trailing dots removed
RStripDot(s) ==
    IF \A i \in 1..Len(s) : s[i] = "." THEN <<>>
    ELSE LET b == CHOOSE i \in 1..Len(s) :
                    s[i] # "." /\ \A j \in (i + 1)..Len(s) : s[j] = "."
         IN SubSeq(s, 1, b)

\* str.splitlines(): the lines without their line ends (no empty last line)
RECURSIVE SplitLines(_)
\* s with its first line end at n (0: none)
SplitAt(s, n) ==
    IF n = 0 THEN <<s>>
    ELSE <<SubSeq(s, 1, n - 1)>> \o SplitLines(SubSeq(s, n + 1, Len(s)))

SplitLines(s) == IF s = <<>> THEN <<>> ELSE SplitAt(s, Find(<<"\n">>, s))

StripAll(ls) == [i \in 1..Len(ls) |-> Strip(ls[i])]

\* [l.strip() for l in text.splitlines() if l.strip()]
StrippedLines(s) == StripAll(SelectSeq(SplitLines(s), LAMBDA l : Strip(l) # <<>>))

\* int(s) of a string of decimal digits
DigitVal ==
    ("0" :> 0) @@ ("1" :> 1) @@ ("2" :> 2) @@ ("3" :> 3) @@ ("4" :> 4) @@
    ("5" :> 5) @@ ("6" :> 6) @@ ("7" :> 7) @@ ("8" :> 8) @@ ("9" :> 9)

RECURSIVE ParseInt(_)
ParseInt(s) ==
    IF s = <<>> THEN 0
    ELSE 10 * ParseInt(SubSeq(s, 1, Len(s) - 1)) + DigitVal[s[Len(s)]]

-----------------------------------------------------------------------------
(* Python's re: patterns as data, and the matcher *)

\* a character class with its repetition {min,max}; max = -1 is unbounded
Cls(set, min, max) ==
    [t |-> "cls", set |-> set, neg |-> FALSE, min |-> min, max |-> max, lazy |-> FALSE]
\* a complemented class [^...]: every character that is not in the set
NotCls(set, min, max) ==
    [t |-> "cls", set |-> set, neg |-> TRUE, min |-> min, max |-> max, lazy |-> FALSE]
\* .*? without DOTALL: every character but the newline, as few as possible
DotStarLazy ==
    [t |-> "cls", set |-> {"\n"}, neg |-> TRUE, min |-> 0, max |-> -1, lazy |-> TRUE]
\* a literal string, as a pattern of one item
Lit(str) == <<[t |-> "lit", str |-> str]>>
\* \b, ^ and $
WB == [t |-> "wb"]
BOS == [t |-> "bos"]
EOS == [t |-> "eos"]
\* ( alt1 | alt2 | ... ) as capturing group cap, (?: ... ) when cap = 0
Grp(alts, cap) == [t |-> "grp", alts |-> alts, cap |-> cap, opt |-> FALSE]
\* (?: alt1 | alt2 | ... )?
Opt(alts) == [t |-> "grp", alts |-> alts, cap |-> 0, opt |-> TRUE]
\* the end of capturing group cap, opened at position start
CapEnd(cap, start) == [t |-> "capend", cap |-> cap, start |-> start]

\* \s* , \s+ , \d{a,b}
WSStar == Cls(SpaceChars, 0, -1)
WSPlus == Cls(SpaceChars, 1, -1)
DigitsRep(a, b) == Cls(Digits, a, b)

Fail == [ok |-> FALSE]
NoCap == <<0, 0>>
NoCaps == <<NoCap, NoCap>>

InClass(c, set, ic) ==
    IF ic THEN LowerChar(c) \in {LowerChar(x) : x \in set} ELSE c \in set

\* the literal str is at pos (under IGNORECASE when ic)
LitAt(str, s, pos, ic) ==
    /\ pos + Len(str) - 1 <= Len(s)
    /\ \A k \in 1..Len(str) : InClass(s[pos + k - 1], {str[k]}, ic)

\* the least element of a set of numbers, or default when it is empty
MinOr(set, default) ==
    IF set = {} THEN default ELSE CHOOSE i \in set : \A j \in set : i <= j

AtMost(n, max) == IF max >= 0 /\ n > max THEN max ELSE n

\* the number of characters of the class (of its complement when neg) from pos on,
\* at most max
RunLen(set, neg, s, pos, max, ic) ==
    AtMost(MinOr({i \in pos..Len(s) : InClass(s[i], set, ic) = neg}, Len(s) + 1) - pos, max)

IsWord(s, i) == i >= 1 /\ i <= Len(s) /\ s[i] \in WordChars
\* \b at pos: between s[pos-1] and s[pos]
AtWordBoundary(s, pos) == IsWord(s, pos - 1) # IsWord(s, pos)
\* $ without MULTILINE: at the end, or before a final newline
AtEnd(s, pos) == pos = Len(s) + 1 \/ (pos = Len(s) /\ s[pos] = "\n")

RECURSIVE Match(_, _, _, _, _)
RECURSIVE TryCounts(_, _, _, _, _, _, _, _)
RECURSIVE TryAlts(_, _, _, _, _, _, _)

\* r when it is a match, else the next thing to try
IfOk(r, other) == IF r.ok THEN r ELSE other

\* item h then the items `rest`, from pos on
MatchItem(h, rest, pos, caps, s, ic) ==
    CASE h.t = "cls" ->
            TryCounts(rest, pos, h.min, RunLen(h.set, h.neg, s, pos, h.max, ic), h.lazy, caps, s, ic)
      [] h.t = "lit" ->
            IF LitAt(h.str, s, pos, ic)
            THEN Match(rest, pos + Len(h.str), caps, s, ic) ELSE Fail
      [] h.t = "wb" ->
            IF AtWordBoundary(s, pos) THEN Match(rest, pos, caps, s, ic) ELSE Fail
      [] h.t = "bos" ->
            IF pos = 1 THEN Match(rest, pos, caps, s, ic) ELSE Fail
      [] h.t = "eos" ->
            IF AtEnd(s, pos) THEN Match(rest, pos, caps, s, ic) ELSE Fail
      [] h.t = "grp" ->
            IfOk(TryAlts(h, 1, rest, pos, caps, s, ic),
                 IF h.opt THEN Match(rest, pos, caps, s, ic) ELSE Fail)
      [] h.t = "capend" ->
            Match(rest, pos, [caps EXCEPT ![h.cap] = <<h.start, pos>>], s, ic)

\* items `its` matched from pos on: [ok, end, caps], the first in priority order
Match(its, pos, caps, s, ic) ==
    IF Len(its) = 0 THEN [ok |-> TRUE, end |-> pos, caps |-> caps]
    ELSE MatchItem(Head(its), Tail(its), pos, caps, s, ic)

\* of the matches <<k, r>>, the one with the largest k (greedy) or the smallest (lazy)
PickCount(good, lazy) ==
    IF good = {} THEN Fail
    ELSE (CHOOSE r \in good : \A o \in good : IF lazy THEN r[1] <= o[1] ELSE r[1] >= o[1])[2]

\* a class repeated k times then the rest, for the first k in lo..hi that succeeds
TryCounts(rest, pos, lo, hi, lazy, caps, s, ic) ==
    PickCount({r \in {<<k, Match(rest, pos + k, caps, s, ic)>> : k \in lo..hi} : r[2].ok}, lazy)

\* the alternatives of group h from the k-th on, then the rest
TryAlts(h, k, rest, pos, caps, s, ic) ==
    IF k > Len(h.alts) THEN Fail
    ELSE IfOk(Match(h.alts[k] \o (IF h.cap = 0 THEN rest ELSE <<CapEnd(h.cap, pos)>> \o rest),
                    pos, caps, s, ic),
              TryAlts(h, k + 1, rest, pos, caps, s, ic))

\* the match object of a match r that started at pos
MatchObject(r, pos) ==
    IF r.ok THEN [ok |-> TRUE, start |-> pos, end |-> r.end, caps |-> r.caps] ELSE Fail

\* re.match(pat, s): [ok, start, end, caps]
ReMatchAt(pat, s, pos, ic) == MatchObject(Match(pat, pos, NoCaps, s, ic), pos)

LeftMost(good) ==
    IF good = {} THEN Fail ELSE CHOOSE r \in good : \A o \in good : r.start <= o.start

\* re.search(pat, s[from-1:]) with positions of s: the leftmost match
SearchFrom(pat, s, from, ic) ==
    LeftMost({r \in {ReMatchAt(pat, s, i, ic) : i \in from..(Len(s) + 1)} : r.ok})

ReSearch(pat, s, ic) == SearchFrom(pat, s, 1, ic)

\* m.group(0) and m.group(k)
Group0(m, s) == Slice(s, m.start, m.end)
Group(m, k, s) == Slice(s, m.caps[k][1], m.caps[k][2])
\* m.lastindex is not None: some capturing group took part in the match
HasGroup(m) == \E k \in 1..Len(m.caps) : m.caps[k] # NoCap

\* re.sub(pat, repl, s) for patterns that match no empty string
RECURSIVE ReSubFrom(_, _, _, _, _)
\* s from `from` on, with the match m replaced and the rest substituted
ReSubAt(m, pat, repl, s, from, ic) ==
    IF ~m.ok THEN Slice(s, from, Len(s) + 1)
    ELSE Slice(s, from, m.start) \o repl \o ReSubFrom(pat, repl, s, m.end, ic)

ReSubFrom(pat, repl, s, from, ic) == ReSubAt(SearchFrom(pat, s, from, ic), pat, repl, s, from, ic)

ReSub(pat, repl, s, ic) == ReSubFrom(pat, repl, s, 1, ic)

-----------------------------------------------------------------------------
(* src/extract_rules.py: the pattern extractors *)

\* ( items ) as capturing group k
Cap(items, k) == Grp(<<items>>, k)
\* (?:\.|\n|$)
ClauseEnd == Grp(<<Lit(<<".">>), Lit(<<"\n">>), <<EOS>>>>, 0)
\* (.*?) as capturing group 1
LazyClause == Cap(<<DotStarLazy>>, 1)

\* (\d{1,2}/\d{1,2}/\d{4})\s*(?:ore|alle)?\s*(\d{1,2}:\d{2})
datetime_pattern ==
    <<Cap(<<DigitsRep(1, 2)>> \o Lit(<<"/">>) \o <<DigitsRep(1, 2)>> \o Lit(<<"/">>) \o <<DigitsRep(4, 4)>>, 1),
      WSStar, Opt(<<Lit(<<"o","r","e">>), Lit(<<"a","l","l","e">>)>>), WSStar,
      Cap(<<DigitsRep(1, 2)>> \o Lit(<<":">>) \o <<DigitsRep(2, 2)>>, 2)>>

\* the part of s before, and after, its first sep
BeforeSep(s, sep) == SubSeq(s, 1, Find(<<sep>>, s) - 1)
AfterSep(s, sep) == SubSeq(s, Find(<<sep>>, s) + 1, Len(s))

\* parser.parse(..., dayfirst=True) on the three numbers a/b/y of a date whose third
\* has four digits: the first is the year when it is over 31; else day, month, year
\* when that can be read so; else month, day, year
resolve_ymd(a, b, y) ==
    IF a > 31
    THEN IF y <= 12 THEN [year |-> a, month |-> y, day |-> b]
         ELSE [year |-> a, month |-> b, day |-> y]
    ELSE IF a > 12 \/ b <= 12 THEN [year |-> y, month |-> b, day |-> a]
    ELSE [year |-> y, month |-> a, day |-> b]

IsLeapYear(y) == (y % 4 = 0 /\ y % 100 # 0) \/ y % 400 = 0

DaysInMonth(y, m) ==
    IF m = 2 THEN (IF IsLeapYear(y) THEN 29 ELSE 28)
    ELSE IF m \in {4, 6, 9, 11} THEN 30 ELSE 31

\* datetime(year, month, day, hour, minute) raises no ValueError
valid_datetime(d, hour, minute) ==
    /\ d.year \in 1..9999 /\ d.month \in 1..12
    /\ d.day >= 1 /\ d.day <= DaysInMonth(d.year, d.month)
    /\ hour <= 23 /\ minute <= 59

DigitChars == <<"0","1","2","3","4","5","6","7","8","9">>

\* n in decimal on w digits, zero filled
RECURSIVE ZeroPad(_, _)
ZeroPad(n, w) ==
    IF w = 0 THEN <<>> ELSE ZeroPad(n \div 10, w - 1) \o <<DigitChars[(n % 10) + 1]>>

\* dt.isoformat() of a datetime without seconds: YYYY-MM-DDTHH:MM:00
isoformat(d, hour, minute) ==
    ZeroPad(d.year, 4) \o <<"-">> \o ZeroPad(d.month, 2) \o <<"-">> \o ZeroPad(d.day, 2)
        \o <<"T">> \o ZeroPad(hour, 2) \o <<":">> \o ZeroPad(minute, 2) \o <<":","0","0">>

\* try: dt = parser.parse(dt_str, dayfirst=True); return dt.isoformat()
\* except Exception: return None
iso_or_none(d, hour, minute) ==
    IF valid_datetime(d, hour, minute) THEN isoformat(d, hour, minute) ELSE None

\* dt_str = f"{m.group(1)} {m.group(2)}", parsed
parse_dayfirst(date, time) ==
    iso_or_none(resolve_ymd(ParseInt(BeforeSep(date, "/")),
                            ParseInt(BeforeSep(AfterSep(date, "/"), "/")),
                            ParseInt(AfterSep(AfterSep(date, "/"), "/"))),
                ParseInt(BeforeSep(time, ":")), ParseInt(AfterSep(time, ":")))

datetime_of(m, txt) ==
    IF m.ok THEN parse_dayfirst(Group(m, 1, txt), Group(m, 2, txt)) ELSE None

extract_datetime(txt) == datetime_of(ReSearch(datetime_pattern, txt, TRUE), txt)

bp_patterns == <<
    \* \bPA\s*[:=]?\s*(\d{2,3})\s*/\s*(\d{2,3})\b
    <<WB>> \o Lit(<<"P","A">>) \o <<WSStar, Cls({":", "="}, 0, 1), WSStar, Cap(<<DigitsRep(2, 3)>>, 1), WSStar>>
        \o Lit(<<"/">>) \o <<WSStar, Cap(<<DigitsRep(2, 3)>>, 2), WB>>,
    \* \bPA\s*(\d{2,3})\s*/\s*(\d{2,3})\b
    <<WB>> \o Lit(<<"P","A">>) \o <<WSStar, Cap(<<DigitsRep(2, 3)>>, 1), WSStar>>
        \o Lit(<<"/">>) \o <<WSStar, Cap(<<DigitsRep(2, 3)>>, 2), WB>>,
    \* \bpressione\s*(\d{2,3})\s*[-/]\s*(\d{2,3})\b
    <<WB>> \o Lit(<<"p","r","e","s","s","i","o","n","e">>) \o <<WSStar, Cap(<<DigitsRep(2, 3)>>, 1), WSStar, Cls({"-", "/"}, 1, 1),
        WSStar, Cap(<<DigitsRep(2, 3)>>, 2), WB>>,
    \* \b(\d{2,3})\s*/\s*(\d{2,3})\s*(?:mmhg)?\b
    <<WB, Cap(<<DigitsRep(2, 3)>>, 1), WSStar>> \o Lit(<<"/">>)
        \o <<WSStar, Cap(<<DigitsRep(2, 3)>>, 2), WSStar, Opt(<<Lit(<<"m","m","h","g">>)>>), WB>>,
    \* \b(\d{2,3})\s*-\s*(\d{2,3})\b
    <<WB, Cap(<<DigitsRep(2, 3)>>, 1), WSStar>> \o Lit(<<"-">>)
        \o <<WSStar, Cap(<<DigitsRep(2, 3)>>, 2), WB>> >>

allowed_cues == {<<"p","a">>, <<"p","r","e","s","s","i","o","n","e">>, <<"p","a","r","a","m","e","t","r","i">>, <<"v","a","l","o","r","i">>, <<"m","m","h","g">>, <<"f","c">>, <<"b","p","m">>, <<"t","e","m","p">>, <<" ","t"," ">>}

\* \b\d{1,2}/\d{1,2}/\d{2,4}\b
bp_date_pattern ==
    <<WB, DigitsRep(1, 2)>> \o Lit(<<"/">>) \o <<DigitsRep(1, 2)>> \o Lit(<<"/">>) \o <<DigitsRep(2, 4), WB>>

NoBP == <<NoneNum, NoneNum>>

\* extract_bp with the date gate alone: a line without a cue goes on to the patterns
bp_line_gates_without_cue(line, low) ==
    ~ /\ ReSearch(bp_date_pattern, line, FALSE).ok
      /\ ~Contains(<<"p","a">>, low)
      /\ ~Contains(<<"p","r","e","s","s","i","o","n","e">>, low)

\* the two gates of extract_bp's loop, for a line and its lower(): the line goes on
\* to the patterns
bp_line_gates(line, low) ==
    /\ \E cue \in allowed_cues : Contains(cue, low)
    /\ ~ /\ ReSearch(bp_date_pattern, line, FALSE).ok
         /\ ~Contains(<<"p","a">>, low)
         /\ ~Contains(<<"p","r","e","s","s","i","o","n","e">>, low)

bp_line_considered(line) == bp_line_gates(line, Lower(line))

\* if 70 <= sys <= 250 and 40 <= dia <= 150: return sys, dia
bp_pair(sys, dia) ==
    IF 70 <= sys /\ sys <= 250 /\ 40 <= dia /\ dia <= 150 THEN <<sys, dia>> ELSE NoBP

\* the reading of match m of a pattern in the line, when it is within the ranges
bp_reading(m, line) ==
    IF m.ok THEN bp_pair(ParseInt(Group(m, 1, line)), ParseInt(Group(m, 2, line))) ELSE NoBP

\* the reading r when there is one, else what comes next
OrBP(r, other) == IF r # NoBP THEN r ELSE other

\* for pat in bp_patterns, from the k-th on: the first match within the sanity ranges
RECURSIVE bp_from_line(_, _)
bp_from_line(line, k) ==
    IF k > Len(bp_patterns) THEN NoBP
    ELSE OrBP(bp_reading(ReSearch(bp_patterns[k], line, TRUE), line), bp_from_line(line, k + 1))

\* for line in lines
RECURSIVE bp_from_lines(_)
bp_from_lines(lines) ==
    IF Len(lines) = 0 THEN NoBP
    ELSE OrBP(IF bp_line_considered(Head(lines)) THEN bp_from_line(Head(lines), 1) ELSE NoBP,
              bp_from_lines(Tail(lines)))

extract_bp(txt) == bp_from_lines(StrippedLines(txt))

\* v when lo <= v <= hi
Ranged(v, lo, hi) == IF lo <= v /\ v <= hi THEN v ELSE NoneNum

\* the value v when there is one, else what comes next
OrNum(v, other) == IF v # NoneNum THEN v ELSE other

\* int(m.group(1)) of match m in txt, when it is in [lo, hi]
int_in_range(m, txt, lo, hi) ==
    IF m.ok THEN Ranged(ParseInt(Group(m, 1, txt)), lo, hi) ELSE NoneNum

\* the first pattern, from the k-th on, whose match's group 1 is an integer in [lo, hi]
RECURSIVE first_int_in_range(_, _, _, _, _)
first_int_in_range(patterns, txt, k, lo, hi) ==
    IF k > Len(patterns) THEN NoneNum
    ELSE OrNum(int_in_range(ReSearch(patterns[k], txt, TRUE), txt, lo, hi),
               first_int_in_range(patterns, txt, k + 1, lo, hi))

\* \s*[:=]?\s*(\d{2,3})
LabelledInt == <<WSStar, Cls({":", "="}, 0, 1), WSStar, Cap(<<DigitsRep(2, 3)>>, 1)>>

hr_patterns == <<
    \* \bFC\s*[:=]?\s*(\d{2,3})\b
    <<WB>> \o Lit(<<"F","C">>) \o LabelledInt \o <<WB>>,
    \* \bHR\s*[:=]?\s*(\d{2,3})\b
    <<WB>> \o Lit(<<"H","R">>) \o LabelledInt \o <<WB>>,
    \* \bfrequenza\s*(\d{2,3})\s*(?:bpm)?\b
    <<WB>> \o Lit(<<"f","r","e","q","u","e","n","z","a">>) \o <<WSStar, Cap(<<DigitsRep(2, 3)>>, 1), WSStar, Opt(<<Lit(<<"b","p","m">>)>>), WB>>,
    \* \b(\d{2,3})\s*bpm\b
    <<WB, Cap(<<DigitsRep(2, 3)>>, 1), WSStar>> \o Lit(<<"b","p","m">>) \o <<WB>> >>

extract_hr(txt) == first_int_in_range(hr_patterns, txt, 1, 30, 220)

\* \s*[:=]?\s*([0-9]{1,2}[.,][0-9])\b
LabelledDecimal ==
    <<WSStar, Cls({":", "="}, 0, 1), WSStar,
      Cap(<<DigitsRep(1, 2), Cls({".", ","}, 1, 1), DigitsRep(1, 1)>>, 1), WB>>

temp_patterns == <<
    <<WB>> \o Lit(<<"t","e","m","p","e","r","a","t","u","r","a">>) \o LabelledDecimal,
    <<WB>> \o Lit(<<"t","e","m","p">>) \o LabelledDecimal,
    <<WB>> \o Lit(<<"T">>) \o LabelledDecimal >>

\* float(m.group(1).replace(",", ".")) in tenths: "36,6" is 366
ParseTenths(s) == 10 * ParseInt(SubSeq(s, 1, Len(s) - 2)) + DigitVal[s[Len(s)]]

\* a temperature is its number of tenths: 36.5 is 365, the range [30.0, 43.0] is [300, 430]
temp_in_range(m, txt) ==
    IF m.ok THEN Ranged(ParseTenths(Group(m, 1, txt)), 300, 430) ELSE NoneNum

RECURSIVE temp_from(_, _)
temp_from(txt, k) ==
    IF k > Len(temp_patterns) THEN NoneNum
    ELSE OrNum(temp_in_range(ReSearch(temp_patterns[k], txt, TRUE), txt), temp_from(txt, k + 1))

extract_temp(txt) == temp_from(txt, 1)

\* \s*[:=]?\s*(\d{2,3})\s*%?\b
LabelledPercent == LabelledInt \o <<WSStar, Cls({"%"}, 0, 1), WB>>

spo2_patterns == <<
    <<WB>> \o Lit(<<"S","p","O","2">>) \o LabelledPercent,
    <<WB>> \o Lit(<<"S","a","t","O","2">>) \o LabelledPercent,
    <<WB>> \o Lit(<<"s","a","t","u","r","a","z","i","o","n","e">>) \o LabelledPercent >>

extract_spo2(txt) == first_int_in_range(spo2_patterns, txt, 1, 50, 100)

\* reason = m.group(1).strip(); return reason if reason else None
NonEmptyOrNone(s) == IF s = <<>> THEN None ELSE s
StrippedOrNone(s) == NonEmptyOrNone(Strip(s))

\* \bMotivo(?: della visita)?\s*:\s*(.*?)(?:\.|\n|$)
reason_motivo ==
    <<WB>> \o Lit(<<"M","o","t","i","v","o">>) \o <<Opt(<<Lit(<<" ","d","e","l","l","a"," ","v","i","s","i","t","a">>)>>), WSStar>> \o Lit(<<":">>)
        \o <<WSStar, LazyClause, ClauseEnd>>
\* \b(?:Paziente\s+)?Riferisce\s+(.*?)(?:\.|\n|$)
reason_riferisce ==
    <<WB, Opt(<<Lit(<<"P","a","z","i","e","n","t","e">>) \o <<WSPlus>>>>)>> \o Lit(<<"R","i","f","e","r","i","s","c","e">>) \o <<WSPlus, LazyClause, ClauseEnd>>
\* \bRiferito\s+(.*?)(?:\.|\n|$)
reason_riferito ==
    <<WB>> \o Lit(<<"R","i","f","e","r","i","t","o">>) \o <<WSPlus, LazyClause, ClauseEnd>>

\* \b\d{1,2}/\d{1,2}/\d{4}\b and \b\d{1,2}:\d{2}\b
header_date ==
    <<WB, DigitsRep(1, 2)>> \o Lit(<<"/">>) \o <<DigitsRep(1, 2)>> \o Lit(<<"/">>) \o <<DigitsRep(4, 4), WB>>
header_time == <<WB, DigitsRep(1, 2)>> \o Lit(<<":">>) \o <<DigitsRep(2, 2), WB>>

reason_keywords == {<<"c","o","n","t","r","o","l","l","o">>, <<"m","o","n","i","t","o","r","a","g","g","i","o">>, <<"r","i","v","a","l","u","t","a","z","i","o","n","e">>, <<"d","o","l","o","r","e">>, <<"c","a","d","u","t","a">>,
                    <<"m","e","d","i","c","a","z","i","o","n","e">>, <<"v","e","r","i","f","i","c","a">>, <<"s","t","a","n","c","h","e","z","z","a">>, <<"a","p","p","e","t","i","t","o">>}

\* a line that is no date/time header, does not start with "visita" and has a keyword
reason_like(line, low) ==
    /\ ~(ReSearch(header_date, line, FALSE).ok /\ ReSearch(header_time, line, FALSE).ok)
    /\ ~StartsAt(low, <<"v","i","s","i","t","a">>, 1)
    /\ \E k \in reason_keywords : Contains(k, low)

\* 4) the first "reason-like" line
RECURSIVE reason_from_lines(_)
reason_from_lines(lines) ==
    IF Len(lines) = 0 THEN None
    ELSE IF reason_like(Head(lines), Lower(Head(lines))) THEN RStripDot(Head(lines))
    ELSE reason_from_lines(Tail(lines))

\* a tier that goes on to the next ones when its clause is empty
reason_of_nonempty(m, txt, other) ==
    IF m.ok /\ StrippedOrNone(Group(m, 1, txt)) # None THEN StrippedOrNone(Group(m, 1, txt)) ELSE other

\* if m: reason = m.group(1).strip(); return reason if reason else None
reason_of(m, txt, other) == IF m.ok THEN StrippedOrNone(Group(m, 1, txt)) ELSE other

\* 1) Motivo:  2) Paziente riferisce  3) Riferito  4) the first reason-like line
extract_reason(txt) ==
    reason_of(ReSearch(reason_motivo, txt, TRUE), txt,
        reason_of(ReSearch(reason_riferisce, txt, TRUE), txt,
            reason_of(ReSearch(reason_riferito, txt, TRUE), txt,
                reason_from_lines(StrippedLines(txt)))))

follow_up_patterns == <<
    \* \bProgrammato\b.*?(?:\.|\n|$)
    <<WB>> \o Lit(<<"P","r","o","g","r","a","m","m","a","t","o">>) \o <<WB, DotStarLazy, ClauseEnd>>,
    \* \bFollow[-\s]?up\s*:\s*(.*?)(?:\.|\n|$)
    <<WB>> \o Lit(<<"F","o","l","l","o","w">>) \o <<Cls({"-"} \cup SpaceChars, 0, 1)>> \o Lit(<<"u","p">>) \o <<WSStar>>
        \o Lit(<<":">>) \o <<WSStar, LazyClause, ClauseEnd>>,
    \* \bcontrollo\b.*?\b(prossima settimana|tra\s+\d+\s+giorni)\b.*?(?:\.|\n|$)
    <<WB>> \o Lit(<<"c","o","n","t","r","o","l","l","o">>) \o <<WB, DotStarLazy, WB,
        Grp(<<Lit(<<"p","r","o","s","s","i","m","a"," ","s","e","t","t","i","m","a","n","a">>),
              Lit(<<"t","r","a">>) \o <<WSPlus, Cls(Digits, 1, -1), WSPlus>> \o Lit(<<"g","i","o","r","n","i">>)>>, 1),
        WB, DotStarLazy, ClauseEnd>>,
    \* \bricontatto\b.*?(?:\.|\n|$)
    <<WB>> \o Lit(<<"r","i","c","o","n","t","a","t","t","o">>) \o <<WB, DotStarLazy, ClauseEnd>> >>

\* if m: the group when the pattern has one, else the whole match without its dot
follow_up_of(m, txt, other) ==
    IF ~m.ok THEN other
    ELSE IF HasGroup(m) THEN StrippedOrNone(Group(m, 1, txt))
    ELSE NonEmptyOrNone(RStripDot(Strip(Group0(m, txt))))

\* for p in patterns, from the k-th on: the first pattern that matches decides
RECURSIVE follow_up_from(_, _)
follow_up_from(txt, k) ==
    IF k > Len(follow_up_patterns) THEN None
    ELSE follow_up_of(ReSearch(follow_up_patterns[k], txt, TRUE), txt, follow_up_from(txt, k + 1))

extract_follow_up(txt) == follow_up_from(txt, 1)

s_medicazione == <<"m","e","d","i","c","a","z","i","o","n","e">>
s_controllo_parametri_vitali == <<"c","o","n","t","r","o","l","l","o","_","p","a","r","a","m","e","t","r","i","_","v","i","t","a","l","i">>

vitals_keywords == {<<"p","a","r","a","m","e","t","r","i">>, <<"p","a">>, <<"p","r","e","s","s","i","o","n","e">>, <<"f","c">>, <<"b","p","m">>, <<"t","e","m","p","e","r","a","t","u","r","a">>,
                    <<"t","e","m","p">>, <<"s","p","o","2">>, <<"s","a","t","u","r","a","z","i","o","n","e">>, <<"s","a","t","o","2">>}

\* the interventions found in t = text.lower(), built in this order
interventions_in(t) ==
    (IF Contains(s_medicazione, t) THEN <<s_medicazione>> ELSE <<>>)
    \o (IF \E k \in vitals_keywords : Contains(k, t)
        THEN <<s_controllo_parametri_vitali>> ELSE <<>>)

extract_interventions(txt) == interventions_in(Lower(txt))

-----------------------------------------------------------------------------
(* Order of str values and sorted() *)

\* the characters in code point order
CodePointOrder == <<"\t","\n"," ","%","+",",","-",".","/","0","1","2","3","4","5","6","7","8","9",":",";","=","A","B","C","D","E","F","G","H","I","J","K","L","M","N","O","P","Q","R","S","T","U","V","W","X","Y","Z","_","a","b","c","d","e","f","g","h","i","j","k","l","m","n","o","p","q","r","s","t","u","v","w","x","y","z">>

CodePointRank(c) == CHOOSE i \in 1..Len(CodePointOrder) : CodePointOrder[i] = c

\* a < b for two str
StrLess(a, b) ==
    \E i \in 1..(Len(b)) :
        /\ \A k \in 1..(i - 1) : k <= Len(a) /\ a[k] = b[k]
        /\ i - 1 <= Len(a)
        /\ (i > Len(a) \/ CodePointRank(a[i]) < CodePointRank(b[i]))

\* sorted(set): the elements in increasing order
RECURSIVE Sorted(_)
\* x, then the others in increasing order
LeastFirst(x, set) == <<x>> \o Sorted(set \ {x})

Sorted(set) ==
    IF set = {} THEN <<>>
    ELSE LeastFirst(CHOOSE x \in set : \A y \in set : x = y \/ StrLess(x, y), set)

\* set(list)
ToSet(list) == {list[i] : i \in 1..Len(list)}

-----------------------------------------------------------------------------
(* src/normalize.py: the problem normalizer *)

PROBLEM_VOCAB == {<<"i","p","e","r","t","e","n","s","i","o","n","e">>, <<"d","i","a","b","e","t","e","_","t","i","p","o","_","2">>, <<"l","e","s","i","o","n","e","_","d","a","_","p","r","e","s","s","i","o","n","e">>, <<"d","o","l","o","r","e","_","c","r","o","n","i","c","o">>,
                  <<"s","c","o","m","p","e","n","s","o","_","c","a","r","d","i","a","c","o">>, <<"b","p","c","o">>, <<"c","a","d","u","t","a">>, <<"r","i","s","c","h","i","o","_","c","a","d","u","t","a">>,
                  <<"d","i","s","i","d","r","a","t","a","z","i","o","n","e">>, <<"m","a","l","n","u","t","r","i","z","i","o","n","e">>}

\* phrase -> code, in the dict's insertion order
SYNONYM_MAP == <<
    <<<<"i","p","e","r","t","e","n","s","i","o","n","e"," ","a","r","t","e","r","i","o","s","a">>, <<"i","p","e","r","t","e","n","s","i","o","n","e">>>>,
    <<<<"i","p","e","r","t","e","n","s","i","o","n","e">>, <<"i","p","e","r","t","e","n","s","i","o","n","e">>>>,
    <<<<"p","r","e","s","s","i","o","n","e"," ","a","l","t","a">>, <<"i","p","e","r","t","e","n","s","i","o","n","e">>>>,
    <<<<"i","p","e","r","t","e","n","s","o","n","e">>, <<"i","p","e","r","t","e","n","s","i","o","n","e">>>>,
    <<<<"i","p","e","r","t","e","n","s","o","n","e"," ","a","r","t","e","r","i","o","s","a">>, <<"i","p","e","r","t","e","n","s","i","o","n","e">>>>,
    <<<<"d","i","a","b","e","t","e"," ","t","i","p","o"," ","2">>, <<"d","i","a","b","e","t","e","_","t","i","p","o","_","2">>>>,
    <<<<"d","i","a","b","e","t","e"," ","m","e","l","l","i","t","o"," ","t","i","p","o"," ","2">>, <<"d","i","a","b","e","t","e","_","t","i","p","o","_","2">>>>,
    <<<<"d","i","a","b","e","t","e"," ","t","i","p","o","2">>, <<"d","i","a","b","e","t","e","_","t","i","p","o","_","2">>>>,
    <<<<"l","e","s","i","o","n","e"," ","d","a"," ","p","r","e","s","s","i","o","n","e">>, <<"l","e","s","i","o","n","e","_","d","a","_","p","r","e","s","s","i","o","n","e">>>>,
    <<<<"p","i","a","g","a"," ","d","a"," ","d","e","c","u","b","i","t","o">>, <<"l","e","s","i","o","n","e","_","d","a","_","p","r","e","s","s","i","o","n","e">>>>,
    <<<<"u","l","c","e","r","a"," ","d","a"," ","p","r","e","s","s","i","o","n","e">>, <<"l","e","s","i","o","n","e","_","d","a","_","p","r","e","s","s","i","o","n","e">>>>,
    <<<<"d","o","l","o","r","e"," ","c","r","o","n","i","c","o">>, <<"d","o","l","o","r","e","_","c","r","o","n","i","c","o">>>>,
    <<<<"b","p","c","o">>, <<"b","p","c","o">>>>,
    <<<<"b","r","o","n","c","h","i","t","e"," ","c","r","o","n","i","c","a">>, <<"b","p","c","o">>>> >>

FUZZY_ENABLED == TRUE
FUZZY_THRESHOLD == 88
\* len(phrase) < 6: continue
FUZZY_MIN_LEN == 6

\* [^a-zàèéìòù0-9\s]: every character that is none of these
noise_pattern == <<NotCls(LowerLetters \cup LowerAccented \cup Digits \cup SpaceChars, 1, 1)>>

_normalize_text(txt) ==
    LET t1 == Lower(txt)
        t2 == ReSub(noise_pattern, <<" ">>, t1, FALSE)
    IN Strip(ReSub(<<WSPlus>>, <<" ">>, t2, FALSE))

\* a cell of the longest-common-subsequence table, from the cells to its left, above
\* it to the left, and above it
LcsCell(x, y, left, diag, up) ==
    IF x = y THEN diag + 1 ELSE IF up >= left THEN up ELSE left

\* one row of the table: cur[j] for b[1..j], from the row before.  (Len(next) = j and
\* Len(row) = Len(b) always hold; stating them has the table computed cell by cell and
\* row by row.)
RECURSIVE LcsRow(_, _, _, _, _)
LcsRowNext(prev, x, b, j, next) ==
    IF Len(next) = j THEN LcsRow(prev, x, b, j + 1, next) ELSE next

LcsRow(prev, x, b, j, cur) ==
    IF j > Len(b) THEN cur
    ELSE LcsRowNext(prev, x, b, j,
            Append(cur, LcsCell(x, b[j], IF j = 1 THEN 0 ELSE cur[j - 1],
                                IF j = 1 THEN 0 ELSE prev[j - 1], prev[j])))

RECURSIVE LcsRows(_, _, _, _)
LcsRowsNext(a, b, i, row) ==
    IF Len(row) = Len(b) THEN LcsRows(a, b, i + 1, row) ELSE 0

LcsRows(a, b, i, prev) ==
    IF i > Len(a) THEN (IF Len(b) = 0 THEN 0 ELSE prev[Len(b)])
    ELSE LcsRowsNext(a, b, i, LcsRow(prev, a[i], b, 1, <<>>))

\* the length of the longest common subsequence of a and b
Lcs(a, b) == LcsRows(a, b, 1, [j \in 1..Len(b) |-> 0])

\* rapidfuzz.fuzz.ratio(a, b) >= threshold: the normalized Indel similarity
\* 100 * 2 * Lcs / (len(a) + len(b))
RatioAtLeast(a, b, threshold) ==
    IF Len(a) + Len(b) = 0 THEN TRUE
    ELSE 200 * Lcs(a, b) >= threshold * (Len(a) + Len(b))

\* the windows of `longer` that partial_ratio compares the shorter string with:
\* its prefixes shorter than n, its substrings of length n, its suffixes shorter than n
PartialWindows(longer, n) ==
    {SubSeq(longer, 1, i) : i \in 1..(n - 1)}
    \cup {SubSeq(longer, i, i + n - 1) : i \in 1..(Len(longer) - n + 1)}
    \cup {SubSeq(longer, i, Len(longer)) : i \in (Len(longer) - n + 2)..Len(longer)}

\* rapidfuzz.fuzz.partial_ratio(s1, s2) >= threshold: the best ratio of the shorter
\* string against a window of the longer one (0 when one of them is empty)
PartialRatioAtLeast(s1, s2, threshold) ==
    IF Len(s1) = 0 /\ Len(s2) = 0 THEN 100 >= threshold
    ELSE IF Len(s1) = 0 \/ Len(s2) = 0 THEN 0 >= threshold
    ELSE LET shorter == IF Len(s1) <= Len(s2) THEN s1 ELSE s2
             longer == IF Len(s1) <= Len(s2) THEN s2 ELSE s1
         IN \E w \in PartialWindows(longer, Len(shorter)) : RatioAtLeast(shorter, w, threshold)

\* \bipertens\w*\b
ipertens_pattern == <<WB>> \o Lit(<<"i","p","e","r","t","e","n","s">>) \o <<Cls(WordChars, 0, -1), WB>>

\* 1) exact matching
ExactFound(t) == {SYNONYM_MAP[i][2] : i \in {k \in 1..Len(SYNONYM_MAP) : Contains(SYNONYM_MAP[k][1], t)}}

\* 2) the regex fallback for the "ipertens..." family
RegexFound(t) == IF ReSearch(ipertens_pattern, t, FALSE).ok THEN {<<"i","p","e","r","t","e","n","s","i","o","n","e">>} ELSE {}

\* 3) the fuzzy loop over SYNONYM_MAP from the k-th phrase on
RECURSIVE FuzzyFound(_, _, _)
FuzzyFound(t, k, found) ==
    IF k > Len(SYNONYM_MAP) THEN found
    ELSE LET phrase == SYNONYM_MAP[k][1]
             norm == SYNONYM_MAP[k][2]
         IN IF norm \in found \/ Len(phrase) < FUZZY_MIN_LEN THEN FuzzyFound(t, k + 1, found)
            ELSE IF PartialRatioAtLeast(phrase, t, FUZZY_THRESHOLD)
            THEN FuzzyFound(t, k + 1, found \cup {norm})
            ELSE FuzzyFound(t, k + 1, found)

\* the codes of SYNONYM_MAP in the order of their first phrase
codes_in_map_order ==
    <<<<"i","p","e","r","t","e","n","s","i","o","n","e">>, <<"d","i","a","b","e","t","e","_","t","i","p","o","_","2">>, <<"l","e","s","i","o","n","e","_","d","a","_","p","r","e","s","s","i","o","n","e">>, <<"d","o","l","o","r","e","_","c","r","o","n","i","c","o">>, <<"b","p","c","o">>>>

\* normalize_problems returning list(found) in the order of the map, without sorted()
problems_in_unsorted(t) ==
    SelectSeq(codes_in_map_order,
              LAMBDA c : c \in FuzzyFound(t, 1, ExactFound(t) \cup RegexFound(t)))

\* the codes found in the normalized text t, sorted
problems_in(t) ==
    Sorted({p \in (IF FUZZY_ENABLED THEN FuzzyFound(t, 1, ExactFound(t) \cup RegexFound(t))
                   ELSE ExactFound(t) \cup RegexFound(t)) : p \in PROBLEM_VOCAB})

normalize_problems(txt) == problems_in(_normalize_text(txt))

-----------------------------------------------------------------------------
(* src/quality.py: the quality validator *)

\* a dotted path is the sequence of its keys: "meta.visit_datetime" is <<"meta", "visit_datetime">>
MANDATORY_FIELDS == <<
    <<"meta", "visit_datetime">>,
    <<"meta", "operator_role">>,
    <<"clinical", "reason_for_visit">> >>

VITAL_KEYS == <<"blood_pressure_systolic", "blood_pressure_diastolic", "heart_rate", "temperature", "spo2">>

\* get_path(d, path) for the two-key paths of MANDATORY_FIELDS: None when a key is absent
get_path(d, path) ==
    IF path[1] \notin DOMAIN d THEN None
    ELSE IF path[2] \notin DOMAIN d[path[1]] THEN None
    ELSE d[path[1]][path[2]]

\* d.get(k, default)
Get(d, k, default) == IF k \in DOMAIN d THEN d[k] ELSE default

\* any(vit.get(k) is not None for k in [...]); vit is a dict, {} is <<>>
AnyVital(vit) == \E i \in 1..Len(VITAL_KEYS) : Get(vit, VITAL_KEYS[i], NoneNum) # NoneNum

W_NO_INTERVENTIONS == "No interventions extracted from note"
W_NO_VITALS == "No vital signs recorded in note"
W_VITALS_INTERVENTION == "Vitals intervention present but no vitals extracted"

quality_check(output) ==
    LET missing == SelectSeq(MANDATORY_FIELDS,
                             LAMBDA path : LET v == get_path(output, path)
                                           IN v = None \/ v = <<>>)
        interventions == Get(output.clinical, "interventions", <<>>)
        vit == Get(output.clinical, "vitals", <<>>)
        w1 == IF interventions = <<>> THEN <<W_NO_INTERVENTIONS>> ELSE <<>>
        \* if vit and all(vit.get(k) is None for k in [...])
        w2 == IF vit # <<>> /\ ~AnyVital(vit) THEN <<W_NO_VITALS>> ELSE <<>>
        \* if "controllo_parametri_vitali" in interventions and vit: if not any_vital
        w3 == IF (\E i \in 1..Len(interventions) : interventions[i] = <<"c","o","n","t","r","o","l","l","o","_","p","a","r","a","m","e","t","r","i","_","v","i","t","a","l","i">>)
                 /\ vit # <<>>
                 /\ ~AnyVital(vit)
              THEN <<W_VITALS_INTERVENTION>> ELSE <<>>
    IN [missing_mandatory_fields |-> missing, warnings |-> w1 \o w2 \o w3]

-----------------------------------------------------------------------------
(* src/run_pipeline.py: the orchestrator *)

NoVitals == [blood_pressure_systolic |-> NoneNum, blood_pressure_diastolic |-> NoneNum,
             heart_rate |-> NoneNum, temperature |-> NoneNum, spo2 |-> NoneNum]

\* EXTRACT_BP is extract_bp, which returns a tuple: vitals[...] = bp[0], bp[1]
vitals_of(bp, hr, temp, spo2) ==
    [blood_pressure_systolic |-> bp[1], blood_pressure_diastolic |-> bp[2],
     heart_rate |-> hr, temperature |-> temp, spo2 |-> spo2]

extract_vitals_wrapper(txt) ==
    vitals_of(extract_bp(txt), extract_hr(txt), extract_temp(txt), extract_spo2(txt))

\* record_id is the note's position in the batch (the stem of its file name)
build_base_record(record_id) ==
    [meta |-> [record_id |-> record_id,
               template_type |-> <<"diario_clinico", "presa_in_carico">>,
               visit_datetime |-> None,
               operator_role |-> <<"i","n","f","e","r","m","i","e","r","e">>],
     patient |-> [patient_id |-> record_id, age |-> NoneNum, sex |-> None],
     clinical |-> [reason_for_visit |-> None,
                   anamnesis_brief |-> <<>>,
                   vitals |-> NoVitals,
                   consciousness |-> None,
                   mobility |-> None,
                   interventions |-> <<>>,
                   critical_issues |-> <<>>,
                   follow_up |-> None],
     coding |-> [problems_normalized |-> <<>>],
     quality |-> [missing_mandatory_fields |-> <<>>, warnings |-> <<>>]]

-----------------------------------------------------------------------------
(* The inputs of a run: the notes of the batch and the collaborator's answers *)

\* the cleaned texts (PREPROCESS(raw)) a note can have
NoteTexts == <<
    <<"V","i","s","i","t","a"," ","2","4","/","0","2","/","2","0","2","6"," ","0","9",":","1","0","\n","P","A"," ","1","3","5","/","8","0"," ","F","C"," ","7","4">>,
    <<"M","o","t","i","v","o",":"," ","d","o","l","o","r","e"," ","D","X"," ","+"," ","f","e","b","b","r","e",".","\n","T"," ","3","6",",","6">>,
    <<"R","i","f","e","r","i","s","c","e"," ","s","t","a","n","c","h","e","z","z","a",".","\n","N","u","o","v","o"," ","c","o","n","t","r","o","l","l","o">>,
    <<"M","e","d","i","c","a","z","i","o","n","e"," ","p","i","a","g","a"," ","d","a"," ","d","e","c","u","b","i","t","o",".">>,
    <<>>,
    <<"M","o","t","i","v","o",":"," ","d","a"," ","d","a"," ","g","i","o","r","n","i"," ","g","i","o","r","n","i",".">>,
    <<"I","p","e","r","t","e","n","s","i","o","n","e"," ","a","r","t","e","r","i","o","s","a","a">> >>

NoteTextSet == {NoteTexts[i] : i \in 1..Len(NoteTexts)}

\* the values the collaborator's JSON can give each field
LlmReasons == {None, <<"d","a"," ","g","i","o","r","n","i">>, <<"D","o","l","o","r","e"," "," ","D","X"," ","+"," ","f","e","b","b","r","e">>}
LlmFollowUps == {None, <<"T","r","a"," "," ","7"," ","g","i","o","r","n","i">>}
LlmInterventions == {<<>>, <<<<"M","e","d","i","c","a","z","i","o","n","e"," ","a","v","a","n","z","a","t","a">>, <<"m","a","s","s","a","g","g","i","o">>, <<" ","m","e","d","i","c","a","z","i","o","n","e">>>>}
LlmVitals == {NoVitals,
              <<>>,
              [heart_rate |-> 70],
              [NoVitals EXCEPT !.blood_pressure_systolic = 120],
              [NoVitals EXCEPT !.blood_pressure_systolic = 130, !.blood_pressure_diastolic = 85,
                               !.temperature = 371]}
LlmProblems == {<<>>, <<<<"u","l","c","e","r","a">>, <<"b","p","c","o">>, <<"b","p","c","o">>, <<"a","l","t","r","o">>>>}

LlmOut(reason, fu, interv, vit, probs) ==
    [clinical |-> [reason_for_visit |-> reason, follow_up |-> fu,
                   interventions |-> interv, vitals |-> vit],
     coding |-> [problems_normalized |-> probs]]

\* d without key k
Without(d, k) == [x \in DOMAIN d \ {k} |-> d[x]]

\* a JSON object with every key, and the objects that lack one key of it
LlmBaseOut ==
    LlmOut(<<"d","o","l","o","r","e">>, <<"n","u","o","v","o"," ","c","o","n","t","r","o","l","l","o">>, <<<<"c","o","n","t","r","o","l","l","o"," ","p","a","r","a","m","e","t","r","i">>>>,
           [NoVitals EXCEPT !.heart_rate = 70], <<<<"c","a","d","u","t","a">>>>)

LlmPartialOuts ==
    {Without(LlmBaseOut, k) : k \in {"clinical", "coding"}}
    \cup {[LlmBaseOut EXCEPT !.clinical = Without(LlmBaseOut.clinical, k)] :
            k \in {"reason_for_visit", "follow_up", "interventions", "vitals"}}
    \cup {[LlmBaseOut EXCEPT !.coding = Without(LlmBaseOut.coding, "problems_normalized")]}

LlmOutputs ==
    {LlmOut(r, f, i, v, p) : r \in LlmReasons, f \in LlmFollowUps, i \in LlmInterventions,
                             v \in LlmVitals, p \in LlmProblems}
    \cup {LlmBaseOut} \cup LlmPartialOuts

\* what llm_extract does for a note: returns the parsed JSON object, or raises
\* RuntimeError (endpoint unreachable, status not 200, invalid JSON), or the
\* JSONDecodeError of r.json() on a body that is no JSON
LlmFailures == {"unreachable", "http_error", "invalid_body", "invalid_json"}
Responses == {[status |-> "ok", json |-> o] : o \in LlmOutputs}
             \cup {[status |-> s] : s \in LlmFailures}
\* the collaborator is not called
NoResp == [status |-> "unused"]

Args == {[use_llm |-> u, hybrid |-> h] : u \in BOOLEAN, h \in BOOLEAN}
RulesOnly(a) == ~a.hybrid /\ ~a.use_llm
ModelOnly(a) == ~a.hybrid /\ a.use_llm

\* a file read_text cannot read
Unreadable == [readable |-> FALSE, text |-> <<>>, resp |-> NoResp]

\* one note of the batch: whether its file can be read, its cleaned text, and the
\* collaborator's answer for it
NoteInputs(a) ==
    {[readable |-> TRUE, text |-> t, resp |-> r] :
        t \in NoteTextSet, r \in (IF RulesOnly(a) THEN {NoResp} ELSE Responses)}
    \cup {Unreadable}

\* the notes of the batches of several notes
CoreNotes(a) ==
    {[readable |-> TRUE, text |-> NoteTexts[i],
      resp |-> IF RulesOnly(a) THEN NoResp ELSE [status |-> "ok", json |-> LlmBaseOut]] :
        i \in {1, 4}}
    \cup {Unreadable}

\* the most notes in a batch
MaxNotes == 2

\* a batch is one note of any kind, or up to MaxNotes of the core notes
Batches(a) ==
    {<<>>} \cup {<<n>> : n \in NoteInputs(a)}
    \cup UNION {[1..k -> CoreNotes(a)] : k \in 2..MaxNotes}

\* normalize_problems on the notes of the model, computed once
ProblemsOfNote == [t \in NoteTextSet |-> normalize_problems(t)]

\* NORMALIZE_PROBLEMS(text), for the text of a note
NormalizeProblems(txt) == ProblemsOfNote[txt]

apply_rules(txt, r) ==
    [r EXCEPT !.clinical.reason_for_visit = extract_reason(txt),
              !.clinical.follow_up = extract_follow_up(txt),
              !.clinical.interventions = extract_interventions(txt),
              !.clinical.vitals = extract_vitals_wrapper(txt),
              !.coding.problems_normalized = NormalizeProblems(txt)]

\* out["clinical"] or out["coding"] raises KeyError
LlmKeyError(out) == "clinical" \notin DOMAIN out \/ "coding" \notin DOMAIN out

\* lines 167-170: the fields read from out["clinical"]
apply_llm_clinical(r, out) ==
    [r EXCEPT !.clinical.reason_for_visit = Get(out.clinical, "reason_for_visit", None),
              !.clinical.follow_up = Get(out.clinical, "follow_up", None),
              !.clinical.interventions = Get(out.clinical, "interventions", <<>>),
              !.clinical.vitals = Get(out.clinical, "vitals", r.clinical.vitals)]

\* apply_llm when no key is missing at the top level
apply_llm(txt, r, out) ==
    [apply_llm_clinical(r, out) EXCEPT
        !.coding.problems_normalized = Get(out.coding, "problems_normalized", <<>>)]

\* apply_hybrid taking the four fields of out["clinical"], vitals included
apply_hybrid_llm_vitals(txt, r, out) == apply_llm_clinical(r, out)

\* lines 181-186: the free-text fields of out["clinical"], the vitals of the rules
apply_hybrid_clinical(txt, r, out) ==
    [r EXCEPT !.clinical.reason_for_visit = Get(out.clinical, "reason_for_visit", None),
              !.clinical.follow_up = Get(out.clinical, "follow_up", None),
              !.clinical.interventions = Get(out.clinical, "interventions", <<>>),
              !.clinical.vitals = extract_vitals_wrapper(txt)]

\* apply_hybrid when no key is missing at the top level
apply_hybrid(txt, r, out) ==
    LET llm_probs == Get(out.coding, "problems_normalized", <<>>)
        rule_probs == NormalizeProblems(txt)
    IN [apply_hybrid_clinical(txt, r, out) EXCEPT
            !.coding.problems_normalized = Sorted(ToSet(llm_probs) \cup ToSet(rule_probs))]

normalize_reason(reason) ==
    IF reason = None \/ reason = <<>> THEN None
    ELSE LET r1 == Lower(Strip(reason))
             r2 == ReSub(Lit(<<"+">>), <<" ","e"," ">>, r1, FALSE)
             r3 == Strip(ReSub(<<WSPlus>>, <<" ">>, r2, FALSE))
             r4 == ReSub(<<WB>> \o Lit(<<"d","x">>) \o <<WB>>, <<"d","e","s","t","r","o">>, r3, FALSE)
             r5 == ReSub(<<WB>> \o Lit(<<"s","x">>) \o <<WB>>, <<"s","i","n","i","s","t","r","o">>, r4, FALSE)
             r6 == Strip(ReSub(<<WB>> \o Lit(<<"d","a"," ","g","i","o","r","n","i">>) \o <<WB>>, <<>>, r5, FALSE))
         IN Strip(ReSub(<<WSPlus>>, <<" ">>, r6, FALSE))

\* ^(?:programmato controllo )?(?:tra )?(\d+)\s*giorni$
follow_up_days ==
    <<BOS, Opt(<<Lit(<<"p","r","o","g","r","a","m","m","a","t","o"," ","c","o","n","t","r","o","l","l","o"," ">>)>>), Opt(<<Lit(<<"t","r","a"," ">>)>>),
      Cap(<<Cls(Digits, 1, -1)>>, 1), WSStar>> \o Lit(<<"g","i","o","r","n","i">>) \o <<EOS>>

\* the canonical form of s, which follow_up_days matches (m) or not
follow_up_form(m, s) ==
    IF m.ok THEN <<"p","r","o","g","r","a","m","m","a","t","o"," ","c","o","n","t","r","o","l","l","o"," ","t","r","a"," ">> \o Group(m, 1, s) \o <<" ","g","i","o","r","n","i">>
    ELSE IF s \in {<<"n","u","o","v","o"," ","c","o","n","t","r","o","l","l","o">>, <<"p","r","o","g","r","a","m","m","a","t","o"," ","n","u","o","v","o"," ","c","o","n","t","r","o","l","l","o">>}
    THEN <<"p","r","o","g","r","a","m","m","a","t","o"," ","n","u","o","v","o"," ","c","o","n","t","r","o","l","l","o">>
    ELSE s

\* s = re.sub(r"\s+", " ", fu.strip().lower()) and its canonical form
follow_up_canonical(s) == follow_up_form(ReMatchAt(follow_up_days, s, 1, FALSE), s)

normalize_follow_up(fu) ==
    IF fu = None THEN None
    ELSE follow_up_canonical(ReSub(<<WSPlus>>, <<" ">>, Lower(Strip(fu)), FALSE))

INTERVENTION_VOCAB == {<<"c","o","n","t","r","o","l","l","o","_","p","a","r","a","m","e","t","r","i","_","v","i","t","a","l","i">>, <<"m","e","d","i","c","a","z","i","o","n","e">>}

INTERVENTION_SYNONYMS == <<
    <<<<"c","o","n","t","r","o","l","l","o"," ","p","a","r","a","m","e","t","r","i">>, <<"c","o","n","t","r","o","l","l","o","_","p","a","r","a","m","e","t","r","i","_","v","i","t","a","l","i">>>>,
    <<<<"c","o","n","t","r","o","l","l","o"," ","p","a","r","a","m","e","t","r","i"," ","v","i","t","a","l","i">>, <<"c","o","n","t","r","o","l","l","o","_","p","a","r","a","m","e","t","r","i","_","v","i","t","a","l","i">>>>,
    <<<<"r","i","l","e","v","a","t","i"," ","p","a","r","a","m","e","t","r","i">>, <<"c","o","n","t","r","o","l","l","o","_","p","a","r","a","m","e","t","r","i","_","v","i","t","a","l","i">>>>,
    <<<<"r","i","l","e","v","a","z","i","o","n","e"," ","p","a","r","a","m","e","t","r","i">>, <<"c","o","n","t","r","o","l","l","o","_","p","a","r","a","m","e","t","r","i","_","v","i","t","a","l","i">>>>,
    <<<<"c","o","n","t","r","o","l","l","o"," ","g","e","n","e","r","a","l","e">>, <<"c","o","n","t","r","o","l","l","o","_","p","a","r","a","m","e","t","r","i","_","v","i","t","a","l","i">>>>,
    <<<<"m","e","d","i","c","a","z","i","o","n","e"," ","a","v","a","n","z","a","t","a">>, <<"m","e","d","i","c","a","z","i","o","n","e">>>>,
    <<<<"m","e","d","i","c","a","z","i","o","n","e"," ","l","e","s","i","o","n","e">>, <<"m","e","d","i","c","a","z","i","o","n","e">>>>,
    <<<<"m","e","d","i","c","a","z","i","o","n","e"," ","p","i","a","g","a">>, <<"m","e","d","i","c","a","z","i","o","n","e">>>> >>

\* INTERVENTION_SYNONYMS.get(low, low)
MapIntervention(low) ==
    LET hits == {i \in 1..Len(INTERVENTION_SYNONYMS) : INTERVENTION_SYNONYMS[i][1] = low}
    IN IF hits = {} THEN low ELSE INTERVENTION_SYNONYMS[CHOOSE i \in hits : TRUE][2]

\* kept + inferred with no duplicate removed
DedupeNothing(seq) == seq

\* list(dict.fromkeys(seq)): the first occurrence of each element, in order
Dedupe(seq) ==
    LET firsts == {i \in 1..Len(seq) : \A j \in 1..(i - 1) : seq[j] # seq[i]}
        Nth(k) == CHOOSE i \in firsts : Cardinality({j \in firsts : j <= i}) = k
    IN [k \in 1..Cardinality(firsts) |-> seq[Nth(k)]]

\* "medicazione" is inferred from t = text.lower() and r = (reason or "").lower()
inferred_medicazione(t, r) ==
    IF \/ Contains(<<"m","e","d","i","c","a","z","i","o","n","e">>, t) \/ Contains(<<"m","e","d","i","c","a","z","i","o","n","e">>, r)
       \/ Contains(<<"p","i","a","g","a">>, t) \/ Contains(<<"l","e","s","i","o","n","e">>, t)
       \/ Contains(<<"d","e","c","u","b","i","t","o">>, t)
    THEN <<<<"m","e","d","i","c","a","z","i","o","n","e">>>> ELSE <<>>

\* the values mapped by the synonyms, those of the vocabulary kept
mapped_interventions(interventions) ==
    SelectSeq([i \in 1..Len(interventions) |-> MapIntervention(Lower(Strip(interventions[i])))],
              LAMBDA x : x \in INTERVENTION_VOCAB)

normalize_interventions(interventions, txt, reason) ==
    SelectSeq(Dedupe(mapped_interventions(interventions)
                     \o inferred_medicazione(Lower(txt),
                                             IF reason = None THEN <<>> ELSE Lower(reason))),
              LAMBDA x : x \in INTERVENTION_VOCAB)

\* 4) a record with vitals has a reason and the vitals intervention
post_vitals(r, reason, follow, interv, has_any_vital) ==
    [r EXCEPT !.clinical.reason_for_visit =
                    IF reason = None /\ has_any_vital THEN <<"c","o","n","t","r","o","l","l","o"," ","p","a","r","a","m","e","t","r","i">> ELSE reason,
              !.clinical.follow_up = follow,
              !.clinical.interventions =
                    IF has_any_vital
                       /\ ~\E i \in 1..Len(interv) : interv[i] = <<"c","o","n","t","r","o","l","l","o","_","p","a","r","a","m","e","t","r","i","_","v","i","t","a","l","i">>
                    THEN <<<<"c","o","n","t","r","o","l","l","o","_","p","a","r","a","m","e","t","r","i","_","v","i","t","a","l","i">>>> \o interv ELSE interv]

\* 3) the interventions are normalized with the reason of steps 1 and 2
post_interventions(r, txt, reason, follow) ==
    post_vitals(r, reason, follow,
                normalize_interventions(r.clinical.interventions, txt, reason),
                AnyVital(r.clinical.vitals))

\* the fallbacks of steps 1 and 2: the reason of the rules, the "nuovo controllo" follow-up
post_fallbacks(r, txt, reason, follow) ==
    post_interventions(r, txt,
        IF reason = None THEN normalize_reason(extract_reason(txt)) ELSE reason,
        IF follow = None /\ Contains(<<"n","u","o","v","o"," ","c","o","n","t","r","o","l","l","o">>, Lower(txt))
        THEN <<"p","r","o","g","r","a","m","m","a","t","o"," ","n","u","o","v","o"," ","c","o","n","t","r","o","l","l","o">> ELSE follow)

postprocess_record(r, txt) ==
    post_fallbacks(r, txt, normalize_reason(r.clinical.reason_for_visit),
                   normalize_follow_up(r.clinical.follow_up))

\* quality_check(rec, text) raises TypeError (quality_check takes one argument), so
\* the call that returns is quality_check(rec)
run_quality_check(r, txt) == quality_check(r)

\* a record written without the result of the quality check
attach_nothing(r, qq) == r

\* lines 355-357 of main: q is read by the keys "missing_fields" and "warnings"
attach_quality(r, qq) ==
    [r EXCEPT !.quality.missing_mandatory_fields = Get(qq, "missing_fields", <<>>),
              !.quality.warnings = Get(qq, "warnings", <<>>)]

\* if args.hybrid ... elif args.use_llm ... else ...
apply_strategy(a, txt, r, out) ==
    IF a.hybrid THEN apply_hybrid(txt, r, out)
    ELSE IF a.use_llm THEN apply_llm(txt, r, out)
    ELSE apply_rules(txt, r)

\* q = run_quality_check(rec, text) and the two assignments to rec["quality"]
check_and_attach(r, txt) == attach_quality(r, run_quality_check(r, txt))

\* the body of main's loop for one note, when nothing raises: the record it writes
process_note(a, record_id, txt, out) ==
    check_and_attach(
        postprocess_record(apply_strategy(a, txt, build_base_record(record_id), out), txt),
        txt)

-----------------------------------------------------------------------------
(* main: the loop over the batch *)

NoRecord == <<>>

Init ==
    /\ args \in Args
    /\ files \in Batches(args)
    /\ idx = 1
    /\ pc = "read"
    /\ text = <<>>
    /\ rec = NoRecord
    /\ q = NoRecord
    /\ written = <<>>
    /\ posts = 0
    /\ sent = 0
    /\ ret = NoRecord

\* raw = txt_path.read_text(...); text = PREPROCESS(raw)
ReadNote ==
    /\ pc = "read" /\ idx <= Len(files) /\ files[idx].readable
    /\ text' = files[idx].text
    /\ pc' = "build"
    /\ UNCHANGED <<args, files, idx, rec, q, written, posts, ret, sent>>

\* read_text raises: nothing catches it, main ends
ReadRaises ==
    /\ pc = "read" /\ idx <= Len(files) /\ ~files[idx].readable
    /\ pc' = "crashed"
    /\ UNCHANGED <<args, files, idx, text, rec, q, written, posts, ret, sent>>

\* rec = build_base_record(record_id)
BuildBaseRecord ==
    /\ pc = "build"
    /\ rec' = build_base_record(idx)
    /\ posts' = 0
    /\ pc' = "apply"
    /\ UNCHANGED <<args, files, idx, text, q, written, ret, sent>>

\* else: apply_rules(text, rec)
ApplyRules ==
    /\ pc = "apply" /\ ~args.hybrid /\ ~args.use_llm
    /\ rec' = apply_rules(text, rec)
    /\ pc' = "post"
    /\ UNCHANGED <<args, files, idx, text, q, written, posts, ret, sent>>

\* elif args.use_llm: apply_llm(text, rec, args.model)
ApplyLlm ==
    /\ pc = "apply" /\ ~args.hybrid /\ args.use_llm
    /\ files[idx].resp.status = "ok" /\ ~LlmKeyError(files[idx].resp.json)
    /\ rec' = apply_llm(text, rec, files[idx].resp.json)
    /\ pc' = "post"
    /\ sent' = sent + 1
    /\ UNCHANGED <<args, files, idx, text, q, written, posts, ret>>

\* if args.hybrid: apply_hybrid(text, rec, args.model)
ApplyHybrid ==
    /\ pc = "apply" /\ args.hybrid
    /\ files[idx].resp.status = "ok" /\ ~LlmKeyError(files[idx].resp.json)
    /\ rec' = apply_hybrid(text, rec, files[idx].resp.json)
    /\ pc' = "post"
    /\ sent' = sent + 1
    /\ UNCHANGED <<args, files, idx, text, q, written, posts, ret>>

\* llm_extract raises RuntimeError in apply_llm or apply_hybrid: main ends
LlmExtractRaises ==
    /\ pc = "apply" /\ (args.hybrid \/ args.use_llm)
    /\ files[idx].resp.status \in LlmFailures
    /\ pc' = "crashed"
    /\ sent' = sent + 1
    /\ UNCHANGED <<args, files, idx, text, rec, q, written, posts, ret>>

\* out["clinical"] or out["coding"] raises KeyError in apply_llm or apply_hybrid, after
\* the assignments before it: main ends
LlmKeyRaises ==
    /\ pc = "apply" /\ (args.hybrid \/ args.use_llm)
    /\ files[idx].resp.status = "ok" /\ LlmKeyError(files[idx].resp.json)
    /\ rec' = IF "clinical" \notin DOMAIN files[idx].resp.json THEN rec
              ELSE IF args.hybrid THEN apply_hybrid_clinical(text, rec, files[idx].resp.json)
              ELSE apply_llm_clinical(rec, files[idx].resp.json)
    /\ pc' = "crashed"
    /\ sent' = sent + 1
    /\ UNCHANGED <<args, files, idx, text, q, written, posts, ret>>

\* postprocess_record(rec, text)
Postprocess ==
    /\ pc = "post"
    /\ rec' = postprocess_record(rec, text)
    /\ posts' = posts + 1
    /\ pc' = "quality"
    /\ UNCHANGED <<args, files, idx, text, q, written, ret, sent>>

\* q = run_quality_check(rec, text) and the two assignments to rec["quality"]
QualityCheck ==
    /\ pc = "quality"
    /\ q' = run_quality_check(rec, text)
    /\ rec' = attach_quality(rec, q')
    /\ pc' = "write"
    /\ UNCHANGED <<args, files, idx, text, written, posts, ret, sent>>

\* out_path.write_text(json.dumps(rec, ...)), and on to the next file
WriteRecord ==
    /\ pc = "write"
    /\ written' = (idx :> rec) @@ written
    /\ idx' = idx + 1
    /\ pc' = "read"
    /\ UNCHANGED <<args, files, text, rec, q, posts, ret, sent>>

\* after the loop: reports/llm_mode.json is written and main returns
WriteLlmMode ==
    /\ pc = "read" /\ idx > Len(files)
    /\ pc' = "done"
    /\ UNCHANGED <<args, files, idx, text, rec, q, written, posts, ret, sent>>

Next ==
    \/ ReadNote
    \/ ReadRaises
    \/ BuildBaseRecord
    \/ ApplyRules
    \/ ApplyLlm
    \/ ApplyHybrid
    \/ LlmExtractRaises
    \/ LlmKeyRaises
    \/ Postprocess
    \/ QualityCheck
    \/ WriteRecord
    \/ WriteLlmMode

Spec == Init /\ [][Next]_vars

-----------------------------------------------------------------------------
(* extract_bp on its own: the texts are a few lines, the call returns its pair *)

\* "\n".join(lines)
RECURSIVE JoinLines(_)
JoinLines(lines) ==
    IF Len(lines) = 0 THEN <<>>
    ELSE IF Len(lines) = 1 THEN lines[1]
    ELSE lines[1] \o <<"\n">> \o JoinLines(Tail(lines))

BPHeader == <<"V","i","s","i","t","a"," ","d","o","m","i","c","i","l","i","a","r","e"," ","2","4","/","0","2","/","2","0","2","6"," ","0","9",":","1","0">>
BPCuedLine == <<"P","r","e","s","s","i","o","n","e"," ","1","3","5","-","8","0",","," ","F","C","=","7","4",".">>

BPLines == {
    BPHeader,
    BPCuedLine,
    <<"E","s","i","t","o"," ","1","2","0","/","8","0">>,
    <<"V","a","l","o","r","i"," ","1","2","8","/","7","6"," ","d","e","l"," ","2","4","/","0","2","/","2","0","2","6">>,
    <<"P","A"," ","1","3","0","/","8","5"," ","d","e","l"," ","2","4","/","0","2","/","2","0","2","6">>,
    <<"F","C"," ","7","4"," ","b","p","m">>,
    <<"V","i","s","i","t","a"," ","2","4","/","0","2","/","2","0","2","6"," ","0","9",":","1","0">>,
    <<"P","A",":"," ","3","0","0","/","8","0"," ","m","m","H","g">>,
    <<"t","e","m","p"," ","3","6",",","5"," ","1","1","0","/","7","0">>,
    <<"2","4","/","0","2","/","2","0","2","6"," ","p","r","e","s","s","i","o","n","e"," ","a","r","t","e","r","i","o","s","a"," ","1","3","5","/","8","0"," ","m","m","H","g">> }

\* the most lines in a text given to extract_bp
MaxBPLines == 2

BPTexts == {JoinLines(ls) : ls \in UNION {[1..n -> BPLines] : n \in 0..MaxBPLines}}

NoArgs == [use_llm |-> FALSE, hybrid |-> FALSE]

InitBP ==
    /\ text \in BPTexts
    /\ pc = "bp_call"
    /\ ret = NoRecord
    /\ args = NoArgs /\ files = <<>> /\ idx = 1 /\ rec = NoRecord /\ q = NoRecord
    /\ written = <<>> /\ posts = 0
    /\ sent = 0

\* ret = extract_bp(text)
CallExtractBP ==
    /\ pc = "bp_call"
    /\ ret' = extract_bp(text)
    /\ pc' = "bp_return"
    /\ UNCHANGED <<args, files, idx, text, rec, q, written, posts, sent>>

NextBP == CallExtractBP

SpecBP == InitBP /\ [][NextBP]_vars

-----------------------------------------------------------------------------
(* normalize_problems on its own: the texts are a few fragments *)

NormFragments == <<
    <<"i","p","e","r","t","e","n","s","i","v","a">>,
    <<"B","P","C","O">>,
    <<"d","o","l","o","r"," ","c","r","o","n","i","c","o">>,
    <<"p","i","a","g","a"," ","d","a"," ","d","e","c","u","b","i","t","o","!">>,
    <<"d","i","a","b","e","t","e"," ","t","i","p","o","2">>,
    <<"f","e","b","b","r","e">>,
    <<"P","r","e","s","s","i","o","n","e"," "," ","a","l","t","a">>,
    <<"b","r","o","n","c","h","i","t","e"," ","c","r","o","n","c","a">> >>

\* the most fragments in a text given to normalize_problems
MaxFragments == 2

\* the fragments of the set of indices, in order, each followed by ", "
RECURSIVE JoinFragments(_)
JoinFragments(indices) ==
    IF indices = {} THEN <<>>
    ELSE NormFragments[MinOr(indices, 0)] \o <<","," ">>
         \o JoinFragments(indices \ {MinOr(indices, 0)})

\* the texts of the tests of normalize_problems on fatigue and appetite, falls, hydration
NormTestTexts == {
    <<"P","a","z","i","e","n","t","e"," ","r","i","f","e","r","i","s","c","e"," ","s","t","a","n","c","h","e","z","z","a"," ","e"," ","s","c","a","r","s","o"," ","a","p","p","e","t","i","t","o",".">>,
    <<"R","i","v","a","l","u","t","a","z","i","o","n","e"," ","d","o","p","o"," ","c","a","d","u","t","a","."," ","V","a","l","u","t","a","t","o"," ","r","i","s","c","h","i","o"," ","c","a","d","u","t","a",".">>,
    <<"C","o","n","s","i","g","l","i","a","t","a"," ","i","d","r","a","t","a","z","i","o","n","e",":"," ","p","o","s","s","i","b","i","l","e"," ","d","i","s","i","d","r","a","t","a","z","i","o","n","e",","," ","b","e","v","e"," ","p","o","c","o",".">> }

NormTexts ==
    {JoinFragments(ix) : ix \in {s \in SUBSET (1..Len(NormFragments)) : Cardinality(s) <= MaxFragments}}
    \cup NormTestTexts

InitNormalize ==
    /\ text \in NormTexts
    /\ pc = "np_call"
    /\ ret = NoRecord
    /\ args = NoArgs /\ files = <<>> /\ idx = 1 /\ rec = NoRecord /\ q = NoRecord
    /\ written = <<>> /\ posts = 0
    /\ sent = 0

\* t = _normalize_text(text)
NormalizeText ==
    /\ pc = "np_call"
    /\ ret' = _normalize_text(text)
    /\ pc' = "np_match"
    /\ UNCHANGED <<args, files, idx, text, rec, q, written, posts, sent>>

\* the three matching steps on t, and the return
MatchProblems ==
    /\ pc = "np_match"
    /\ ret' = problems_in(ret)
    /\ pc' = "np_return"
    /\ UNCHANGED <<args, files, idx, text, rec, q, written, posts, sent>>

NextNormalize == NormalizeText \/ MatchProblems

SpecNormalize == InitNormalize /\ [][NextNormalize]_vars

-----------------------------------------------------------------------------
(* src/llm_extract.py: one call to the collaborator, and what its caller does next *)

\* s.rfind(sub) + 1 for a one-character sub (0 when absent)
RFind(c, s) == IF \E i \in 1..Len(s) : s[i] = c
               THEN CHOOSE i \in 1..Len(s) : s[i] = c /\ \A j \in (i + 1)..Len(s) : s[j] # c
               ELSE 0

\* the JSON objects json.loads reads from the texts of the model, each with its text
JsonDocs == <<
    <<<<"{","\"","c","l","i","n","i","c","a","l","\"",":"," ","{","}",","," ","\"","c","o","d","i","n","g","\"",":"," ","{","}","}">>, [clinical |-> <<>>, coding |-> <<>>]>>,
    <<<<"{","\"","c","o","d","i","n","g","\"",":"," ","{","\"","p","r","o","b","l","e","m","s","_","n","o","r","m","a","l","i","z","e","d","\"",":"," ","[","]","}","}">>, [coding |-> [problems_normalized |-> <<>>]]>>,
    <<<<"{","}">>, <<>>>> >>

\* a json.loads that takes a text that is no JSON for the empty object
json_loads_lenient(t) ==
    [ok |-> TRUE,
     value |-> IF \E k \in 1..Len(JsonDocs) : JsonDocs[k][1] = t
               THEN JsonDocs[CHOOSE k \in 1..Len(JsonDocs) : JsonDocs[k][1] = t][2]
               ELSE <<>>]

\* json.loads(t): the object, or JSONDecodeError (every other text of the model is
\* no JSON)
json_loads(t) ==
    IF \E k \in 1..Len(JsonDocs) : JsonDocs[k][1] = t
    THEN [ok |-> TRUE, value |-> JsonDocs[CHOOSE k \in 1..Len(JsonDocs) : JsonDocs[k][1] = t][2]]
    ELSE [ok |-> FALSE]

\* what the model answers in the "response" field of the body
ModelTexts == {
    <<"{","\"","c","l","i","n","i","c","a","l","\"",":"," ","{","}",","," ","\"","c","o","d","i","n","g","\"",":"," ","{","}","}">>,
    <<"E","c","c","o",":"," ","{","\"","c","l","i","n","i","c","a","l","\"",":"," ","{","}",","," ","\"","c","o","d","i","n","g","\"",":"," ","{","}","}"," ","F","i","n","e",".">>,
    <<" ","{","\"","c","o","d","i","n","g","\"",":"," ","{","\"","p","r","o","b","l","e","m","s","_","n","o","r","m","a","l","i","z","e","d","\"",":"," ","[","]","}","}","\n">>,
    <<"{","}">>,
    <<"n","o","n"," ","s","o">>,
    <<>>,
    <<"}"," ","{">>,
    <<"{","\"","c","l","i","n","i","c","a","l","\"",":"," ">>,
    <<"{","c","l","i","n","i","c","a","l",":"," ","{","}","}">> }

\* what the endpoint does with the request: requests.post raises RequestException
\* (no connection, timeout); or it returns a response with a status that is not 200
\* and a body text; or a response with status 200 whose body r.json() reads as an
\* object (with the model's text, null or nothing under "response"), or cannot read
HttpReplies ==
    {[kind |-> "raises"]}
    \cup {[kind |-> "response", status_code |-> c, text |-> t] :
            c \in {404, 500},
            t \in {<<"{","\"","e","r","r","o","r","\"",":","\"","m","o","d","e","l"," ","'","l","l","a","m","a","3",".","1",":","8","b","'"," ","n","o","t"," ","f","o","u","n","d","\"","}">>, <<"I","n","t","e","r","n","a","l"," ","S","e","r","v","e","r"," ","E","r","r","o","r">>}}
    \cup {[kind |-> "response", status_code |-> 200, data |-> [valid |-> FALSE]]}
    \cup {[kind |-> "response", status_code |-> 200,
           data |-> [valid |-> TRUE, obj |-> [response |-> t]]] : t \in ModelTexts \cup {None}}
    \cup {[kind |-> "response", status_code |-> 200,
           data |-> [valid |-> TRUE, obj |-> [done |-> TRUE]]]}

\* raise RuntimeError("Could not reach Ollama at ...")
llm_unreachable_error(r) ==
    [status |-> "unreachable", raised |-> "RuntimeError", message |-> "Could not reach Ollama"]

\* if "model" in r.text.lower() and "not" in r.text.lower(): raise RuntimeError(
\* "Ollama returned <status>: ... may not be installed"); raise RuntimeError("Ollama
\* error <status>: ...")
llm_status_error(r) ==
    [status |-> "http_error", raised |-> "RuntimeError",
     message |-> IF Contains(<<"m","o","d","e","l">>, Lower(r.text)) /\ Contains(<<"n","o","t">>, Lower(r.text))
                 THEN "Ollama returned" ELSE "Ollama error",
     status_code |-> r.status_code]

\* data = r.json() raises
llm_body_error(r) == [status |-> "invalid_body", raised |-> "JSONDecodeError"]

\* except json.JSONDecodeError: the text is written to reports/llm_raw_output.txt and
\* RuntimeError("Local LLM returned invalid JSON. ...") raised
llm_json_error(out_text) ==
    [status |-> "invalid_json", raised |-> "RuntimeError",
     message |-> "Local LLM returned invalid JSON", raw_output |-> out_text]

\* out_text = (data.get("response") or "").strip()
response_text(data) ==
    Strip(IF "response" \in DOMAIN data /\ data.response # None THEN data.response ELSE <<>>)

\* if "{" in out_text and "}" in out_text:
\*     out_text = out_text[out_text.find("{") : out_text.rfind("}") + 1]
json_slice(out_text) ==
    IF Contains(<<"{">>, out_text) /\ Contains(<<"}">>, out_text)
    THEN SubSeq(out_text, Find(<<"{">>, out_text), RFind("}", out_text))
    ELSE out_text

\* one note, its file readable, with what the endpoint does for it
LlmNotes ==
    {[readable |-> TRUE, text |-> NoteTexts[i], resp |-> NoResp, reply |-> r] :
        i \in {1, 4}, r \in HttpReplies}

InitLlm ==
    /\ args \in {a \in Args : ~RulesOnly(a)}
    /\ files \in {<<n>> : n \in LlmNotes}
    /\ idx = 1
    /\ pc = "read"
    /\ text = <<>>
    /\ rec = NoRecord
    /\ q = NoRecord
    /\ written = <<>>
    /\ posts = 0
    /\ sent = 0
    /\ ret = NoRecord

\* r = requests.post(...) raises RequestException: RuntimeError
LlmPostRaises ==
    /\ pc = "apply" /\ files[idx].reply.kind = "raises"
    /\ sent' = sent + 1
    /\ ret' = llm_unreachable_error(files[idx].reply)
    /\ pc' = "llm_raised"
    /\ UNCHANGED <<args, files, idx, text, rec, q, written, posts>>

\* r = requests.post(...) returns a response
LlmPostReturns ==
    /\ pc = "apply" /\ files[idx].reply.kind = "response"
    /\ sent' = sent + 1
    /\ pc' = "llm_status"
    /\ UNCHANGED <<args, files, idx, text, rec, q, written, posts, ret>>

\* if r.status_code != 200: RuntimeError
LlmStatusRaises ==
    /\ pc = "llm_status" /\ files[idx].reply.status_code # 200
    /\ ret' = llm_status_error(files[idx].reply)
    /\ pc' = "llm_raised"
    /\ UNCHANGED <<args, files, idx, text, rec, q, written, posts, sent>>

\* data = r.json() raises: the body is no JSON
LlmBodyRaises ==
    /\ pc = "llm_status" /\ files[idx].reply.status_code = 200
    /\ ~files[idx].reply.data.valid
    /\ ret' = llm_body_error(files[idx].reply)
    /\ pc' = "llm_raised"
    /\ UNCHANGED <<args, files, idx, text, rec, q, written, posts, sent>>

\* data = r.json(); out_text = ... .strip(), cut to its outermost braces
LlmReadResponse ==
    /\ pc = "llm_status" /\ files[idx].reply.status_code = 200
    /\ files[idx].reply.data.valid
    /\ ret' = json_slice(response_text(files[idx].reply.data.obj))
    /\ pc' = "llm_json"
    /\ UNCHANGED <<args, files, idx, text, rec, q, written, posts, sent>>

\* json.loads(out_text) raises JSONDecodeError: RuntimeError
LlmJsonRaises ==
    /\ pc = "llm_json" /\ ~json_loads(ret).ok
    /\ ret' = llm_json_error(ret)
    /\ pc' = "llm_raised"
    /\ UNCHANGED <<args, files, idx, text, rec, q, written, posts, sent>>

\* return json.loads(out_text)
LlmReturns ==
    /\ pc = "llm_json" /\ json_loads(ret).ok
    /\ ret' = json_loads(ret).value
    /\ pc' = "llm_return"
    /\ UNCHANGED <<args, files, idx, text, rec, q, written, posts, sent>>

\* llm_extract has raised in apply_llm or apply_hybrid: nothing catches it, main ends
CallerRaises ==
    /\ pc = "llm_raised"
    /\ pc' = "crashed"
    /\ UNCHANGED <<args, files, idx, text, rec, q, written, posts, ret, sent>>

\* out = llm_extract(...) and out["clinical"] or out["coding"] raises KeyError, after
\* the assignments before it: main ends
CallerKeyRaises ==
    /\ pc = "llm_return" /\ LlmKeyError(ret)
    /\ rec' = IF "clinical" \notin DOMAIN ret THEN rec
              ELSE IF args.hybrid THEN apply_hybrid_clinical(text, rec, ret)
              ELSE apply_llm_clinical(rec, ret)
    /\ pc' = "crashed"
    /\ UNCHANGED <<args, files, idx, text, q, written, posts, ret, sent>>

\* out = llm_extract(...) and the rest of apply_llm or apply_hybrid
CallerApplies ==
    /\ pc = "llm_return" /\ ~LlmKeyError(ret)
    /\ rec' = apply_strategy(args, text, rec, ret)
    /\ pc' = "post"
    /\ UNCHANGED <<args, files, idx, text, q, written, posts, ret, sent>>

NextLlm ==
    \/ ReadNote
    \/ BuildBaseRecord
    \/ LlmPostRaises
    \/ LlmPostReturns
    \/ LlmStatusRaises
    \/ LlmBodyRaises
    \/ LlmReadResponse
    \/ LlmJsonRaises
    \/ LlmReturns
    \/ CallerRaises
    \/ CallerKeyRaises
    \/ CallerApplies
    \/ Postprocess
    \/ QualityCheck
    \/ WriteRecord
    \/ WriteLlmMode

SpecLlm == InitLlm /\ [][NextLlm]_vars

-----------------------------------------------------------------------------
(* src/evaluate.py: precision, recall and F1 of two lists *)

\* A float of f1_for_lists is a fraction in lowest terms <<numerator, denominator>>:
\* the arithmetic is exact, the rounding of floats is left out.
RECURSIVE Gcd(_, _)
Gcd(a, b) == IF b = 0 THEN a ELSE Gcd(b, a % b)

Frac(n, d) == <<n \div Gcd(n, d), d \div Gcd(n, d)>>
FracZero == <<0, 1>>
FracOne == <<1, 1>>
FracAdd(x, y) == Frac(x[1] * y[2] + y[1] * x[2], x[2] * y[2])
FracMul(x, y) == Frac(x[1] * y[1], x[2] * y[2])
FracDiv(x, y) == Frac(x[1] * y[2], x[2] * y[1])

\* set(gold_list or [])
set_or_empty(list) == IF list = None THEN {} ELSE ToSet(list)

\* tp, fp and fn by the lengths of the lists, duplicates counted
f1_counts_of_lists(gold_list, pred_list) ==
    [tp |-> Cardinality(set_or_empty(gold_list) \cap set_or_empty(pred_list)),
     fp |-> Len(pred_list) - Cardinality(set_or_empty(gold_list) \cap set_or_empty(pred_list)),
     fn |-> Len(gold_list) - Cardinality(set_or_empty(gold_list) \cap set_or_empty(pred_list))]

\* tp = len(gold_set & pred_set); fp = len(pred_set - gold_set); fn = len(gold_set - pred_set)
f1_counts(gold_list, pred_list) ==
    [tp |-> Cardinality(set_or_empty(gold_list) \cap set_or_empty(pred_list)),
     fp |-> Cardinality(set_or_empty(pred_list) \ set_or_empty(gold_list)),
     fn |-> Cardinality(set_or_empty(gold_list) \ set_or_empty(pred_list))]

\* tp / (tp + x) if (tp + x) else 0.0
f1_rate(tp, x) == IF tp + x # 0 THEN Frac(tp, tp + x) ELSE FracZero

\* (2 * precision * recall / (precision + recall)) if (precision + recall) else 0.0
f1_harmonic(precision, recall) ==
    IF FracAdd(precision, recall) # FracZero
    THEN FracDiv(FracMul(FracMul(<<2, 1>>, precision), recall), FracAdd(precision, recall))
    ELSE FracZero

f1_scores(precision, recall) ==
    [precision |-> precision, recall |-> recall, f1 |-> f1_harmonic(precision, recall)]

f1_of_counts(c) == f1_scores(f1_rate(c.tp, c.fp), f1_rate(c.tp, c.fn))

f1_for_lists(gold_list, pred_list) ==
    IF set_or_empty(gold_list) = {} /\ set_or_empty(pred_list) = {}
    THEN [precision |-> FracOne, recall |-> FracOne, f1 |-> FracOne]
    ELSE f1_of_counts(f1_counts(gold_list, pred_list))

\* f1_for_lists on its own: the two lists are short lists of a few labels, or None
F1Labels == {<<"a">>, <<"b">>, <<"c">>}

\* the most elements in a list given to f1_for_lists
MaxListLen == 3

F1Lists == UNION {[1..n -> F1Labels] : n \in 0..MaxListLen} \cup {None}

InitF1 ==
    /\ args \in [gold_list : F1Lists, pred_list : F1Lists]
    /\ pc = "f1_call"
    /\ ret = NoRecord
    /\ text = <<>> /\ files = <<>> /\ idx = 1 /\ rec = NoRecord /\ q = NoRecord
    /\ written = <<>> /\ posts = 0
    /\ sent = 0

\* ret = f1_for_lists(gold_list, pred_list)
CallF1ForLists ==
    /\ pc = "f1_call"
    /\ ret' = f1_for_lists(args.gold_list, args.pred_list)
    /\ pc' = "f1_return"
    /\ UNCHANGED <<args, files, idx, text, rec, q, written, posts, sent>>

NextF1 == CallF1ForLists

SpecF1 == InitF1 /\ [][NextF1]_vars

-----------------------------------------------------------------------------
(* extract_reason on its own: the texts are a few lines, the call returns the reason *)

ReasonLines == {
    <<"M","o","t","i","v","o",":"," ","d","o","l","o","r","e",".">>,
    <<"M","o","t","i","v","o"," ","d","e","l","l","a"," ","v","i","s","i","t","a",":"," ",".">>,
    <<"P","a","z","i","e","n","t","e"," ","r","i","f","e","r","i","s","c","e"," ","s","t","a","n","c","h","e","z","z","a",".">>,
    <<"R","i","f","e","r","i","s","c","e"," ",".">>,
    <<"R","i","f","e","r","i","t","o"," ","d","o","l","o","r","e"," ","a","l"," ","g","i","n","o","c","c","h","i","o">>,
    <<"V","i","s","i","t","a"," ","2","4","/","0","2","/","2","0","2","6"," ","0","9",":","1","0"," ","c","o","n","t","r","o","l","l","o">>,
    <<"E","s","e","g","u","i","t","a"," ","m","e","d","i","c","a","z","i","o","n","e",".">>,
    <<"P","a","z","i","e","n","t","e"," ","v","i","g","i","l","e">> }

\* the most lines in a text given to extract_reason
MaxReasonLines == 2

ReasonTexts == {JoinLines(ls) : ls \in UNION {[1..n -> ReasonLines] : n \in 0..MaxReasonLines}}

InitReason ==
    /\ text \in ReasonTexts
    /\ pc = "er_call"
    /\ ret = NoRecord
    /\ args = NoArgs /\ files = <<>> /\ idx = 1 /\ rec = NoRecord /\ q = NoRecord
    /\ written = <<>> /\ posts = 0
    /\ sent = 0

\* ret = extract_reason(text)
CallExtractReason ==
    /\ pc = "er_call"
    /\ ret' = extract_reason(text)
    /\ pc' = "er_return"
    /\ UNCHANGED <<args, files, idx, text, rec, q, written, posts, sent>>

NextReason == CallExtractReason

SpecReason == InitReason /\ [][NextReason]_vars

-----------------------------------------------------------------------------
(* The claims *)

\* the list is in strictly increasing order: sorted, and no element twice
StrictlySorted(list) ==
    \A i \in 1..Len(list) : \A j \in (i + 1)..Len(list) : StrLess(list[i], list[j])

\* the list has no element twice
NoDuplicates(list) ==
    \A i \in 1..Len(list) : \A j \in (i + 1)..Len(list) : list[i] # list[j]

\* C1: in every record written, coding.problems_normalized is a sorted list without
\* duplicates of codes of PROBLEM_VOCAB, whatever the strategy and whatever the
\* collaborator returned.
C1_ProblemsInVocab ==
    \A i \in DOMAIN written :
        /\ StrictlySorted(written[i].coding.problems_normalized)
        /\ \A k \in 1..Len(written[i].coding.problems_normalized) :
                written[i].coding.problems_normalized[k] \in PROBLEM_VOCAB

\* C2: postprocess_record is idempotent: on a record it has already processed, with
\* the same text, it changes nothing.
C2_PostprocessIdempotent ==
    (pc = "quality" /\ posts = 1) => postprocess_record(rec, text) = rec

\* the mandatory paths whose value in record r is null or empty
C3_MissingMandatory(r) ==
    SelectSeq(MANDATORY_FIELDS,
              LAMBDA path : get_path(r, path) = None \/ get_path(r, path) = <<>>)

\* C3: in every record written, quality.missing_mandatory_fields is the list of the
\* mandatory paths whose value in the record is null or empty, and quality.warnings
\* is the validator's list of warnings for the record.
C3_QualityAttached ==
    \A i \in DOMAIN written :
        /\ written[i].quality.missing_mandatory_fields = C3_MissingMandatory(written[i])
        /\ written[i].quality.warnings = quality_check(written[i]).warnings

\* the line has one of the cue words
C4_HasCue(line) == \E cue \in allowed_cues : Contains(cue, Lower(line))

\* the line has a date-shaped token and neither "pa" nor "pressione"
C4_DateWithoutPA(line) ==
    /\ ReSearch(bp_date_pattern, line, FALSE).ok
    /\ ~Contains(<<"p","a">>, Lower(line))
    /\ ~Contains(<<"p","r","e","s","s","i","o","n","e">>, Lower(line))

\* the lines of the text that pass the gates
C4_PassingLines(txt) ==
    SelectSeq(StrippedLines(txt), LAMBDA l : C4_HasCue(l) /\ ~C4_DateWithoutPA(l))

\* C4: extract_bp gates a line before it matches it.  What it returns is what the
\* lines that pass the gates give: nothing comes from a line without a cue word, or
\* from a line with a date and neither "pa" nor "pressione".  A date/time header
\* alone gives (None, None); the header followed by a cued pressure line gives the
\* reading of the second line.
C4_GateBeforeMatch ==
    pc = "bp_return" =>
        /\ ret = bp_from_lines(C4_PassingLines(text))
        /\ (ret # NoBP =>
                \E i \in 1..Len(C4_PassingLines(text)) :
                    bp_from_line(C4_PassingLines(text)[i], 1) = ret)
        /\ (text = BPHeader => ret = NoBP)
        /\ (text = JoinLines(<<BPHeader, BPCuedLine>>) => ret = <<135, 80>>)

\* the header and the cued line have been given, and the reading is the second line's
C4_Witness ==
    /\ pc = "bp_return"
    /\ text = JoinLines(<<BPHeader, BPCuedLine>>)
    /\ ret = <<135, 80>>

\* C10: whatever matching steps fired, normalize_problems returns a list in increasing
\* order, without duplicates, of codes of PROBLEM_VOCAB.
C10_SortedVocabList ==
    pc = "np_return" =>
        /\ StrictlySorted(ret)
        /\ \A i \in 1..Len(ret) : ret[i] \in PROBLEM_VOCAB

\* two codes or more have been returned, one of them found by the fuzzy step alone and
\* one by the exact or regex step
C10_Witness ==
    /\ pc = "np_return"
    /\ Len(ret) >= 2
    /\ \E i \in 1..Len(ret) :
            ret[i] \notin ExactFound(_normalize_text(text)) \cup RegexFound(_normalize_text(text))
    /\ \E i \in 1..Len(ret) :
            ret[i] \in ExactFound(_normalize_text(text)) \cup RegexFound(_normalize_text(text))

\* the codes the synonyms give the values of the list
C5_SynonymCodes(list) ==
    {INTERVENTION_SYNONYMS[s][2] :
        s \in {n \in 1..Len(INTERVENTION_SYNONYMS) :
                \E k \in 1..Len(list) : Lower(Strip(list[k])) = INTERVENTION_SYNONYMS[n][1]}}

\* the interventions the collaborator gave for the idx-th note, when it gave some
C5_Given(i) ==
    IF /\ ~RulesOnly(args) /\ files[i].resp.status = "ok"
       /\ "clinical" \in DOMAIN files[i].resp.json
       /\ "interventions" \in DOMAIN files[i].resp.json.clinical
    THEN files[i].resp.json.clinical.interventions
    ELSE <<>>

\* C5: after postprocess_record, clinical.interventions has no duplicates and only
\* codes of INTERVENTION_VOCAB, and it has the code of every synonym the collaborator
\* gave; so has every record written.
C5_InterventionsInVocab ==
    /\ pc \in {"quality", "write"} =>
            /\ NoDuplicates(rec.clinical.interventions)
            /\ ToSet(rec.clinical.interventions) \subseteq INTERVENTION_VOCAB
            /\ C5_SynonymCodes(C5_Given(idx)) \subseteq ToSet(rec.clinical.interventions)
    /\ \A i \in DOMAIN written :
            /\ NoDuplicates(written[i].clinical.interventions)
            /\ ToSet(written[i].clinical.interventions) \subseteq INTERVENTION_VOCAB
            /\ C5_SynonymCodes(C5_Given(i)) \subseteq ToSet(written[i].clinical.interventions)

\* postprocess_record has run on a list of the collaborator with a synonym, a value
\* outside the vocabulary and a code given twice, and the synonym's code is there
C5_Witness ==
    /\ pc = "quality"
    /\ Len(C5_Given(idx)) = 3
    /\ C5_SynonymCodes(C5_Given(idx)) = {<<"m","e","d","i","c","a","z","i","o","n","e">>}
    /\ \E k \in 1..3 : Lower(Strip(C5_Given(idx)[k])) \notin INTERVENTION_VOCAB
                        /\ C5_SynonymCodes(<<C5_Given(idx)[k]>>) = {}
    /\ <<"m","e","d","i","c","a","z","i","o","n","e">> \in ToSet(rec.clinical.interventions)

\* exactly one of the two blood pressure values is present
C6_ExactlyOneBP(vit) ==
    (Get(vit, "blood_pressure_systolic", NoneNum) = NoneNum)
        # (Get(vit, "blood_pressure_diastolic", NoneNum) = NoneNum)

\* the list has a warning that is none of the validator's three other warnings
C6_HasBPWarning(warnings) ==
    \E k \in 1..Len(warnings) :
        warnings[k] \notin {W_NO_INTERVENTIONS, W_NO_VITALS, W_VITALS_INTERVENTION}

\* C6: the validator's list has a warning about the blood pressure pair exactly when
\* one of systolic and diastolic is present and the other is not.
C6_BPMismatchWarned ==
    pc = "write" => (C6_ExactlyOneBP(rec.clinical.vitals) <=> C6_HasBPWarning(q.warnings))

\* the collaborator's output with its vitals replaced by v
C7_WithVitals(out, v) ==
    [out EXCEPT !.clinical = [k \in DOMAIN out.clinical \cup {"vitals"} |->
                                IF k = "vitals" THEN v ELSE out.clinical[k]]]

\* C7: in a hybrid run, the vitals of every record written are the extractors' results
\* on the note's text, and the record is the one the run writes whatever vitals the
\* collaborator gives, or when it gives none.
C7_HybridVitalsFromRules ==
    (pc = "done" /\ args.hybrid) =>
        \A i \in DOMAIN written :
            /\ written[i].clinical.vitals = extract_vitals_wrapper(files[i].text)
            /\ \A v \in LlmVitals :
                    process_note(args, i, files[i].text, C7_WithVitals(files[i].resp.json, v))
                        = written[i]
            /\ process_note(args, i, files[i].text,
                            [files[i].resp.json EXCEPT
                                !.clinical = Without(files[i].resp.json.clinical, "vitals")])
                    = written[i]

\* a hybrid run has written a record whose text has vitals, other than the vitals
\* the collaborator gave
C7_Witness ==
    /\ pc = "done" /\ args.hybrid
    /\ 1 \in DOMAIN written
    /\ written[1].clinical.vitals # NoVitals
    /\ "vitals" \in DOMAIN files[1].resp.json.clinical
    /\ files[1].resp.json.clinical.vitals # NoVitals
    /\ files[1].resp.json.clinical.vitals # written[1].clinical.vitals

\* the value of key k in r.clinical is the empty record's when out has no such key
C8_Default(out, k) ==
    ("clinical" \in DOMAIN out /\ k \in DOMAIN out.clinical)
    \/ rec.clinical[k] = build_base_record(idx).clinical[k]

\* C8: in a model-only run apply_llm raises on no JSON object the collaborator
\* returns, and after it every field whose key is missing has the empty record's value.
C8_LlmMissingKeysDefault ==
    /\ (pc = "crashed" /\ ModelOnly(args) /\ files[idx].readable)
            => files[idx].resp.status # "ok"
    /\ (pc = "post" /\ ModelOnly(args)) =>
            /\ \A k \in {"reason_for_visit", "follow_up", "interventions", "vitals"} :
                    C8_Default(files[idx].resp.json, k)
            /\ \/ /\ "coding" \in DOMAIN files[idx].resp.json
                  /\ "problems_normalized" \in DOMAIN files[idx].resp.json.coding
               \/ rec.coding.problems_normalized = <<>>

\* C9: a rules-only run ends with the record of every readable note written, whatever
\* happened to the other notes of the batch.
C9_BatchSurvivesFailure ==
    (RulesOnly(args) /\ pc \in {"done", "crashed"}) =>
        \A i \in 1..Len(files) : files[i].readable => i \in DOMAIN written

\* C11: normalize_problems returns "malnutrizione" for every text with the fatigue cue
\* "stanchezza" and the appetite cue "scarso appetito".
C11_MalnutrizioneInferred ==
    (/\ pc = "np_return"
     /\ Contains(<<"s","t","a","n","c","h","e","z","z","a">>, Lower(text))
     /\ Contains(<<"s","c","a","r","s","o"," ","a","p","p","e","t","i","t","o">>, Lower(text)))
        => <<"m","a","l","n","u","t","r","i","z","i","o","n","e">> \in ToSet(ret)

\* the normalized text has the phrase
C12_TextHas(phrase) == Contains(phrase, _normalize_text(text))

\* C12: normalize_problems returns "caduta" for a text with "caduta", "rischio_caduta"
\* for a text with "rischio caduta" and "disidratazione" for a text with
\* "disidratazione".
C12_FallAndHydrationMapped ==
    pc = "np_return" =>
        /\ (C12_TextHas(<<"c","a","d","u","t","a">>) => <<"c","a","d","u","t","a">> \in ToSet(ret))
        /\ (C12_TextHas(<<"r","i","s","c","h","i","o"," ","c","a","d","u","t","a">>) => <<"r","i","s","c","h","i","o","_","c","a","d","u","t","a">> \in ToSet(ret))
        /\ (C12_TextHas(<<"d","i","s","i","d","r","a","t","a","z","i","o","n","e">>) => <<"d","i","s","i","d","r","a","t","a","z","i","o","n","e">> \in ToSet(ret))

\* C13: in a rules-only run, meta.visit_datetime of every record written is what
\* extract_datetime gives for the note's text.
C13_DatetimeFromRules ==
    RulesOnly(args) =>
        \A i \in DOMAIN written :
            written[i].meta.visit_datetime = extract_datetime(files[i].text)

\* the patterns of the three labelled tiers, in order
C14_Patterns == <<reason_motivo, reason_riferisce, reason_riferito>>

\* the labelled tiers whose pattern matches in the text
C14_Matching(txt) == {k \in 1..3 : ReSearch(C14_Patterns[k], txt, TRUE).ok}

\* the clause of labelled tier k, None when it is empty
C14_Clause(k, txt) == StrippedOrNone(Group(ReSearch(C14_Patterns[k], txt, TRUE), 1, txt))

\* the first keyword line that is no date/time header, None when there is none
C14_KeywordLine(txt) == reason_from_lines(StrippedLines(txt))

\* the tiers that find a non-empty reason in the text
C14_Found(txt) ==
    {k \in C14_Matching(txt) : C14_Clause(k, txt) # None}
        \cup (IF C14_KeywordLine(txt) # None THEN {4} ELSE {})

\* what tier k gives
C14_TierResult(k, txt) == IF k = 4 THEN C14_KeywordLine(txt) ELSE C14_Clause(k, txt)

\* C14 as stated: extract_reason returns the reason of the first tier that finds a
\* non-empty one, and None only when no tier finds a reason.
C14_FirstNonEmptyTier ==
    pc = "er_return" =>
        IF C14_Found(text) = {} THEN ret = None
        ELSE ret = C14_TierResult(MinOr(C14_Found(text), 0), text)

\* C14, amended: extract_reason returns what the first labelled tier whose pattern
\* matches gives, its clause or None when the clause is empty, without going on to the
\* lower tiers; the keyword line is used only when no labelled pattern matches.
C14_FirstMatchingTier ==
    pc = "er_return" =>
        IF C14_Matching(text) = {} THEN ret = C14_KeywordLine(text)
        ELSE ret = C14_Clause(MinOr(C14_Matching(text), 0), text)

\* the Motivo label has an empty clause, a lower tier has a reason, and None is returned
C14_Witness ==
    /\ pc = "er_return"
    /\ 1 \in C14_Matching(text) /\ C14_Clause(1, text) = None
    /\ C14_Found(text) # {}
    /\ ret = None

\* the elements of a list argument of f1_for_lists, as a set
C15_Set(list) == IF list = None THEN {} ELSE {list[i] : i \in 1..Len(list)}

\* the elements the two arguments have in common
C15_Tp == Cardinality(C15_Set(args.gold_list) \cap C15_Set(args.pred_list))

\* x is the fraction n / d (d > 0)
C15_Is(x, n, d) == x[2] > 0 /\ x[1] * d = n * x[2]

\* the argument without its duplicates
C15_Distinct(list) == IF list = None THEN None ELSE Dedupe(list)

\* C15: f1_for_lists takes its lists as sets.  With tp the number of common elements,
\* precision is tp over the number of distinct predictions, recall is tp over the
\* number of distinct gold elements, f1 is their harmonic mean 2pr/(p+r), 0 when both
\* are 0; duplicates change nothing; two empty lists give 1, 1, 1; and gold [a, b]
\* with pred [b, c] gives 1/2, 1/2, 1/2.
C15_SetPrecisionRecallF1 ==
    pc = "f1_return" =>
        /\ IF C15_Set(args.gold_list) = {} /\ C15_Set(args.pred_list) = {}
           THEN ret = [precision |-> <<1, 1>>, recall |-> <<1, 1>>, f1 |-> <<1, 1>>]
           ELSE /\ C15_Set(args.pred_list) # {} =>
                        C15_Is(ret.precision, C15_Tp, Cardinality(C15_Set(args.pred_list)))
                /\ C15_Set(args.gold_list) # {} =>
                        C15_Is(ret.recall, C15_Tp, Cardinality(C15_Set(args.gold_list)))
                /\ IF C15_Tp = 0 THEN C15_Is(ret.f1, 0, 1)
                   ELSE C15_Is(ret.f1, 2 * C15_Tp,
                               Cardinality(C15_Set(args.pred_list))
                                   + Cardinality(C15_Set(args.gold_list)))
        /\ ret = f1_for_lists(C15_Distinct(args.gold_list), C15_Distinct(args.pred_list))
        /\ (args.gold_list = <<<<"a">>, <<"b">>>> /\ args.pred_list = <<<<"b">>, <<"c">>>>)
                => ret = [precision |-> <<1, 2>>, recall |-> <<1, 2>>, f1 |-> <<1, 2>>]

\* f1_for_lists has returned for lists with duplicates, some common and some other
\* elements, and precision and recall differ
C15_Witness ==
    /\ pc = "f1_return"
    /\ args.gold_list # None /\ args.pred_list # None
    /\ Len(args.pred_list) > Cardinality(C15_Set(args.pred_list))
    /\ C15_Tp > 0
    /\ C15_Set(args.pred_list) \ C15_Set(args.gold_list) # {}
    /\ ret.precision # ret.recall
    /\ ret.f1 \notin {<<0, 1>>, <<1, 1>>}

-----------------------------------------------------------------------------
(* C16: one request per llm_extract call, and what a failed call leaves behind *)

\* why the call for this reply cannot return a record: the request could not be made
\* ("unreachable"), the status is not 200 ("status"), the body or the text of the
\* model in it is no JSON ("json"); "none" when it can
C16_Cause(r) ==
    IF r.kind = "raises" THEN "unreachable"
    ELSE IF r.status_code # 200 THEN "status"
    ELSE IF ~r.data.valid THEN "json"
    ELSE IF \E k \in 1..Len(JsonDocs) :
                JsonDocs[k][1] = json_slice(response_text(r.data.obj)) THEN "none"
    ELSE "json"

\* the error names the cause, and no other cause
C16_Identifies(e, r, cause) ==
    CASE cause = "unreachable" ->
            e.raised = "RuntimeError" /\ e.message = "Could not reach Ollama"
      [] cause = "status" ->
            /\ e.raised = "RuntimeError"
            /\ e.message \in {"Ollama returned", "Ollama error"}
            /\ e.status_code = r.status_code
      [] cause = "json" ->
            \/ e.raised = "JSONDecodeError"
            \/ e.raised = "RuntimeError" /\ e.message = "Local LLM returned invalid JSON"
      [] OTHER -> FALSE

\* C16: a call of llm_extract sends one request and no second one; when the request
\* cannot be made, the status is not 200 or the answer is no JSON, the call raises an
\* error that names that cause, it returns nothing, and no record of the note is
\* written
C16_OneRequestAndAbort ==
    /\ sent <= 1
    /\ pc \in {"llm_status", "llm_json", "llm_raised", "llm_return"} => sent = 1
    /\ pc = "llm_raised" =>
           /\ C16_Cause(files[1].reply) # "none"
           /\ C16_Identifies(ret, files[1].reply, C16_Cause(files[1].reply))
    /\ pc = "llm_return" => C16_Cause(files[1].reply) = "none"
    /\ C16_Cause(files[1].reply) # "none" =>
           /\ written = <<>>
           /\ pc \notin {"llm_return", "post", "quality", "write", "done"}

\* the model answered with braces around text that is no JSON: the call raised the
\* RuntimeError of invalid JSON after its one request, main ended, nothing was written
C16_Witness ==
    /\ pc = "crashed"
    /\ C16_Cause(files[1].reply) = "json"
    /\ files[1].reply.data.valid
    /\ ret.message = "Local LLM returned invalid JSON"
    /\ Contains(<<"{">>, ret.raw_output)
    /\ sent = 1
    /\ written = <<>>

-----------------------------------------------------------------------------
(* C17: the steps of main's loop on one note *)

\* the record of note i after the one strategy the options select: hybrid when
\* --hybrid is given (with or without --use-llm), the model alone when only --use-llm
\* is, the rules otherwise
C17_Populated(i) ==
    IF args.hybrid
    THEN apply_hybrid(files[i].text, build_base_record(i), files[i].resp.json)
    ELSE IF args.use_llm
    THEN apply_llm(files[i].text, build_base_record(i), files[i].resp.json)
    ELSE apply_rules(files[i].text, build_base_record(i))

\* ... then after post-processing
C17_Postprocessed(i) == postprocess_record(C17_Populated(i), files[i].text)

\* ... then with the result of the quality check on the post-processed record
C17_Checked(i) ==
    [C17_Postprocessed(i) EXCEPT
        !.quality.missing_mandatory_fields =
            Get(quality_check(C17_Postprocessed(i)), "missing_fields", <<>>),
        !.quality.warnings = Get(quality_check(C17_Postprocessed(i)), "warnings", <<>>)]

\* every field of the content of a new record is null or empty
C17_Empty(r) ==
    /\ r.clinical.reason_for_visit = None
    /\ r.clinical.follow_up = None
    /\ r.clinical.interventions = <<>>
    /\ r.clinical.vitals = NoVitals
    /\ r.coding.problems_normalized = <<>>
    /\ r.meta.visit_datetime = None
    /\ r.quality = [missing_mandatory_fields |-> <<>>, warnings |-> <<>>]

\* C17: on every note the record is first created empty; then one strategy fills it,
\* the hybrid one when both options are given; then post-processing runs, once; then
\* the quality check, on the post-processed record; then the record is written; and a
\* written record stays as it was written
C17_StepsInOrder ==
    /\ pc = "apply" => C17_Empty(rec) /\ posts = 0
    /\ pc = "post" => rec = C17_Populated(idx) /\ posts = 0
    /\ pc = "quality" =>
           /\ rec = C17_Postprocessed(idx)
           /\ posts = 1
           /\ rec.quality = [missing_mandatory_fields |-> <<>>, warnings |-> <<>>]
    /\ pc = "write" =>
           /\ q = quality_check(C17_Postprocessed(idx))
           /\ rec = C17_Checked(idx)
           /\ posts = 1
    /\ \A i \in DOMAIN written : written[i] = C17_Checked(i)

\* both options were given and two notes written, the first unchanged by the loop on
\* the second; on it the hybrid strategy and the model alone give different records,
\* post-processing changed the record, and the quality check warns
C17_Witness ==
    /\ args.hybrid /\ args.use_llm
    /\ pc = "done" /\ DOMAIN written = {1, 2}
    /\ C17_Populated(1) #
           apply_llm(files[1].text, build_base_record(1), files[1].resp.json)
    /\ C17_Postprocessed(1) # C17_Populated(1)
    /\ written[1].quality.warnings # <<>>

-----------------------------------------------------------------------------
(* C18: a post-processed record with a vital *)

\* C18: after postprocess_record, under every strategy, a record with a vital has
\* "controllo_parametri_vitali" among its interventions and a reason for the visit
\* that is a non-empty text
C18_VitalsImplyInterventionAndReason ==
    (pc = "quality" /\ AnyVital(rec.clinical.vitals)) =>
        /\ \E i \in 1..Len(rec.clinical.interventions) :
               rec.clinical.interventions[i] = <<"c","o","n","t","r","o","l","l","o","_",
                    "p","a","r","a","m","e","t","r","i","_","v","i","t","a","l","i">>
        /\ rec.clinical.reason_for_visit # None
        /\ rec.clinical.reason_for_visit # <<>>

-----------------------------------------------------------------------------
(* C19: the pair extract_bp returns *)

\* pattern k matches the line from position pos on with both values in range
C19_InRangeAt(line, k, pos) ==
    bp_reading(ReMatchAt(bp_patterns[k], line, pos, TRUE), line) # NoBP

\* pattern k has a match in the line with both values in range
C19_InRange(line, k) == \E pos \in 1..Len(line) : C19_InRangeAt(line, k, pos)

\* the line passes the gates and some pattern has a match in it with both values in
\* range
C19_LineHasReading(line) ==
    bp_line_considered(line) /\ \E k \in 1..Len(bp_patterns) : C19_InRange(line, k)

\* the first match of the line with both values in range, by pattern order
C19_FirstOfLine(line) ==
    bp_reading(
        ReMatchAt(bp_patterns[CHOOSE k \in 1..Len(bp_patterns) :
                                  /\ C19_InRange(line, k)
                                  /\ \A j \in 1..(k - 1) : ~C19_InRange(line, j)],
                  line,
                  CHOOSE pos \in 1..Len(line) :
                      /\ C19_InRangeAt(line,
                             CHOOSE k \in 1..Len(bp_patterns) :
                                 /\ C19_InRange(line, k)
                                 /\ \A j \in 1..(k - 1) : ~C19_InRange(line, j),
                             pos)
                      /\ \A o \in 1..(pos - 1) :
                             ~C19_InRangeAt(line,
                                  CHOOSE k \in 1..Len(bp_patterns) :
                                      /\ C19_InRange(line, k)
                                      /\ \A j \in 1..(k - 1) : ~C19_InRange(line, j),
                                  o),
                  TRUE),
        line)

\* the first such match of the lines, by line order
C19_FirstOfLines(lines) ==
    C19_FirstOfLine(lines[CHOOSE i \in 1..Len(lines) :
                              /\ C19_LineHasReading(lines[i])
                              /\ \A j \in 1..(i - 1) : ~C19_LineHasReading(lines[j])])

\* C19: extract_bp returns (None, None) or a systolic in [70, 250] with a diastolic in
\* [40, 150], never one value alone; when a line that passes the gates has a match of
\* a pattern with both values in range, the result is the first such match by line
\* order, then pattern order; and the vitals of the rules have both values of the
\* blood pressure or neither
C19_FirstInRangeMatch ==
    pc = "bp_return" =>
        /\ \/ ret = NoBP
           \/ /\ 70 <= ret[1] /\ ret[1] <= 250
              /\ 40 <= ret[2] /\ ret[2] <= 150
        /\ (\E i \in 1..Len(StrippedLines(text)) :
                C19_LineHasReading(StrippedLines(text)[i]))
               => ret = C19_FirstOfLines(StrippedLines(text))
        /\ (extract_vitals_wrapper(text).blood_pressure_systolic = NoneNum)
               <=> (extract_vitals_wrapper(text).blood_pressure_diastolic = NoneNum)

=============================================================================
